---- MODULE Spec2Model ----
(***************************************************************************)
(* Verification model of the rust-solutions command line utilities.        *)
(*                                                                         *)
(* tailr (src/tailr/src/main.rs):                                          *)
(*   parse_num        token -> TakeValue                                   *)
(*   get_start_index  (TakeValue, total) -> Option<i64>                    *)
(*   run / main       the per-file loop and the process exit               *)
(*   tail_lines       a count on the command line, applied to one file     *)
(* cutr (src/cutr/src/main.rs): parse_pos, extract_chars, extract_bytes    *)
(* grepr (src/grepr/src/main.rs): find_lines                               *)
(* wcr (src/wcr/src/lib.rs): count                                         *)
(* fortuner (src/fortuner/src/main.rs): read_fortunes                      *)
(* commr (src/commr/src/main.rs): run                                      *)
(*                                                                         *)
(* Each pure function is exercised by its own specification, whose Init    *)
(* draws the arguments and whose single action applies the function.       *)
(* The variables of the other specifications rest at their idle values.    *)
(*                                                                         *)
(* The i64 and usize values of the programs are held as signed decimal     *)
(* numbers (a sign and a sequence of digits), so that they have the width  *)
(* of the source: I64_MAX is 9223372036854775807 and USIZE_MAX is          *)
(* 18446744073709551615, and every range check is made against them.       *)
(***************************************************************************)
EXTENDS Integers, Sequences, FiniteSets, TLC

\* ---------------------------------------------------------------- bounds
\* largest count of lines or bytes get_start_index is applied to, the limits
\* of the i64 apart
MaxTotal == 6
\* longest token handed to parse_num
MaxLen == 4
\* most files on the command line
MaxFiles == 2
\* longest file, in bytes
MaxBytes == 2
\* longest position list handed to parse_pos
MaxPosLen == 5
\* longest file the counting and printing functions are applied to, in bytes
MaxExtract == 4
\* longest line handed to extract_chars and extract_bytes, in characters
MaxChars == 2
\* most ranges in the position list handed to them
MaxRanges == 2
\* longest input handed to find_lines and to count, in bytes
MaxText == 4
\* longest pattern handed to find_lines, in characters
MaxPattern == 2
\* longest fortune file, in lines
MaxFortuneLines == 3
\* longest count given to tailr on the command line, in characters
MaxCount == 3
\* longest file handed to commr, in lines
MaxCommLines == 3


VARIABLES
    \* get_start_index
    take_val, total, start_index,
    \* parse_num
    value, parsed,
    \* run / main
    args, fs, i, stdout, stderr, run_result, pc, exit_code,
    \* count_lines_bytes, print_lines, print_bytes on one file
    ex_file, ex_take, ex_result,
    \* cutr: parse_pos
    pos_value, pos_result,
    \* cutr: extract_chars, extract_bytes
    cut_line, cut_pos, cut_result,
    \* grepr: find_lines
    grep_file, grep_pattern, grep_matches,
    \* wcr: count
    wc_file, wc_info,
    \* fortuner: read_fortunes
    fort_fs, fort_paths, fortunes,
    \* tailr: a count given on the command line, applied to a file
    tail_value, tail_file, tail_out,
    \* commr: run
    comm_args, comm_lines1, comm_lines2, comm_result

gsi_vars == <<take_val, total, start_index>>
pn_vars == <<value, parsed>>
run_vars == <<args, fs, i, stdout, stderr, run_result, pc, exit_code>>
ex_vars == <<ex_file, ex_take, ex_result>>
pos_vars == <<pos_value, pos_result>>
cut_vars == <<cut_line, cut_pos, cut_result>>
grep_vars == <<grep_file, grep_pattern, grep_matches>>
wc_vars == <<wc_file, wc_info>>
fort_vars == <<fort_fs, fort_paths, fortunes>>
tail_vars == <<tail_value, tail_file, tail_out>>
comm_vars == <<comm_args, comm_lines1, comm_lines2, comm_result>>
tailr_vars == <<gsi_vars, pn_vars, run_vars, ex_vars>>
vars == <<gsi_vars, pn_vars, run_vars, ex_vars, pos_vars,
          cut_vars, grep_vars, wc_vars, fort_vars, tail_vars, comm_vars>>

\* the variables a specification leaves alone
not_gsi_vars == <<pn_vars, run_vars, ex_vars, pos_vars,
                  cut_vars, grep_vars, wc_vars, fort_vars, tail_vars, comm_vars>>
not_pn_vars == <<gsi_vars, run_vars, ex_vars, pos_vars,
                 cut_vars, grep_vars, wc_vars, fort_vars, tail_vars, comm_vars>>
not_run_vars == <<gsi_vars, pn_vars, ex_vars, pos_vars,
                  cut_vars, grep_vars, wc_vars, fort_vars, tail_vars, comm_vars>>
not_ex_vars == <<gsi_vars, pn_vars, run_vars, pos_vars,
                 cut_vars, grep_vars, wc_vars, fort_vars, tail_vars, comm_vars>>
not_pos_vars == <<tailr_vars,
                  cut_vars, grep_vars, wc_vars, fort_vars, tail_vars, comm_vars>>
not_cut_vars == <<tailr_vars, pos_vars,
                  grep_vars, wc_vars, fort_vars, tail_vars, comm_vars>>
not_grep_vars == <<tailr_vars, pos_vars,
                   cut_vars, wc_vars, fort_vars, tail_vars, comm_vars>>
not_wc_vars == <<tailr_vars, pos_vars,
                 cut_vars, grep_vars, fort_vars, tail_vars, comm_vars>>
not_fort_vars == <<tailr_vars, pos_vars,
                   cut_vars, grep_vars, wc_vars, tail_vars, comm_vars>>
not_tail_vars == <<tailr_vars, pos_vars,
                   cut_vars, grep_vars, wc_vars, fort_vars, comm_vars>>
not_comm_vars == <<tailr_vars, pos_vars,
                   cut_vars, grep_vars, wc_vars, fort_vars, tail_vars>>

\* a result that has not been computed yet
Pending == [kind |-> "Pending"]

\* ---------------------------------------------------------------- integers
\* An integer of the program is [neg, mag]: mag is the sequence of its
\* decimal digits, the most significant first and not 0, and <<>> for zero;
\* neg is TRUE for a negative number.
RECURSIVE strip_zeros(_)
strip_zeros(m) == IF m # <<>> /\ m[1] = 0 THEN strip_zeros(Tail(m)) ELSE m

front(m) == IF m = <<>> THEN <<>> ELSE SubSeq(m, 1, Len(m) - 1)
last_digit(m) == IF m = <<>> THEN 0 ELSE m[Len(m)]

\* a < b on two magnitudes
RECURSIVE lex_lt(_, _)
lex_lt(a, b) ==
    IF a = <<>> THEN FALSE
    ELSE IF a[1] # b[1] THEN a[1] < b[1]
    ELSE lex_lt(Tail(a), Tail(b))
mag_lt(a, b) == Len(a) < Len(b) \/ (Len(a) = Len(b) /\ lex_lt(a, b))

\* a + b on two magnitudes, digit by digit from the right
RECURSIVE mag_add_carry(_, _, _)
mag_add_carry(a, b, carry) ==
    IF a = <<>> /\ b = <<>> THEN (IF carry = 0 THEN <<>> ELSE <<carry>>)
    ELSE LET sum == last_digit(a) + last_digit(b) + carry
         IN Append(mag_add_carry(front(a), front(b), sum \div 10), sum % 10)
mag_add(a, b) == mag_add_carry(a, b, 0)

\* a - b on two magnitudes, a >= b
RECURSIVE mag_sub_borrow(_, _, _)
mag_sub_borrow(a, b, borrow) ==
    IF a = <<>> THEN <<>>
    ELSE LET d == last_digit(a) - last_digit(b) - borrow
         IN Append(mag_sub_borrow(front(a), front(b), IF d < 0 THEN 1 ELSE 0),
                   IF d < 0 THEN d + 10 ELSE d)
mag_sub(a, b) == strip_zeros(mag_sub_borrow(a, b, 0))

Num(is_neg, m) == [neg |-> is_neg /\ m # <<>>, mag |-> m]

\* the integer n of the model checker as an integer of the program, and back
RECURSIVE digits_of(_)
digits_of(n) == IF n = 0 THEN <<>> ELSE Append(digits_of(n \div 10), n % 10)
Z(n) == IF n < 0 THEN Num(TRUE, digits_of(-n)) ELSE Num(FALSE, digits_of(n))
RECURSIVE mag_value(_)
mag_value(m) == IF m = <<>> THEN 0 ELSE 10 * mag_value(front(m)) + last_digit(m)
nat(x) == IF x.neg THEN -mag_value(x.mag) ELSE mag_value(x.mag)

\* -x, x + y, x - y, x < y, x <= y, max(x, y)
neg(x) == Num(~x.neg, x.mag)
add(x, y) ==
    IF x.neg = y.neg THEN Num(x.neg, mag_add(x.mag, y.mag))
    ELSE IF mag_lt(x.mag, y.mag) THEN Num(y.neg, mag_sub(y.mag, x.mag))
    ELSE Num(x.neg, mag_sub(x.mag, y.mag))
sub(x, y) == add(x, neg(y))
lt(x, y) ==
    IF x.neg # y.neg THEN x.neg
    ELSE IF x.neg THEN mag_lt(y.mag, x.mag)
    ELSE mag_lt(x.mag, y.mag)
le(x, y) == ~lt(y, x)
max_of(x, y) == IF lt(x, y) THEN y ELSE x

\* i64::MAX, i64::MIN, usize::MAX
I64_MAX == Num(FALSE, <<9, 2, 2, 3, 3, 7, 2, 0, 3, 6, 8, 5, 4, 7, 7, 5, 8, 0, 7>>)
I64_MIN == Num(TRUE, <<9, 2, 2, 3, 3, 7, 2, 0, 3, 6, 8, 5, 4, 7, 7, 5, 8, 0, 8>>)
USIZE_MAX == Num(FALSE, <<1, 8, 4, 4, 6, 7, 4, 4, 0, 7, 3, 7, 0, 9, 5, 5, 1, 6, 1, 5>>)

\* ------------------------------------------------------------- TakeValue
PlusZero == [tag |-> "PlusZero"]
TakeNum(n) == [tag |-> "TakeNum", num |-> n]

\* Option<i64>
None == [some |-> FALSE]
Some(x) == [some |-> TRUE, val |-> x]

max(a, b) == IF a >= b THEN a ELSE b

\* the concatenation of a sequence of sequences
RECURSIVE Concat(_)
Concat(seqs) == IF seqs = <<>> THEN <<>> ELSE Head(seqs) \o Concat(Tail(seqs))

\* ------------------------------------------------------- get_start_index
\* mutants of get_start_index, each one slip of the source
get_start_index_ge(tv, tot) ==
    IF tv.tag = "TakeNum"
    THEN IF tv.num = Z(0) \/ tot = Z(0) \/ le(tot, tv.num) THEN None
         ELSE IF lt(tv.num, Z(0)) THEN Some(max_of(add(tot, tv.num), Z(0)))
         ELSE Some(sub(tv.num, Z(1)))
    ELSE IF tot # Z(0) THEN Some(Z(0)) ELSE None

get_start_index_no_past_end(tv, tot) ==
    IF tv.tag = "TakeNum"
    THEN IF tv.num = Z(0) \/ tot = Z(0) THEN None
         ELSE IF lt(tv.num, Z(0)) THEN Some(max_of(add(tot, tv.num), Z(0)))
         ELSE Some(sub(tv.num, Z(1)))
    ELSE IF tot # Z(0) THEN Some(Z(0)) ELSE None

get_start_index_symmetric(tv, tot) ==
    IF tv.tag = "TakeNum"
    THEN IF tv.num = Z(0) \/ tot = Z(0) \/ lt(tot, tv.num) \/ lt(tot, neg(tv.num))
         THEN None
         ELSE IF lt(tv.num, Z(0)) THEN Some(add(tot, tv.num))
         ELSE Some(sub(tv.num, Z(1)))
    ELSE IF tot # Z(0) THEN Some(Z(0)) ELSE None

get_start_index_no_empty(tv, tot) ==
    IF tv.tag = "TakeNum"
    THEN IF tv.num = Z(0) \/ lt(tot, tv.num) THEN None
         ELSE IF lt(tv.num, Z(0)) THEN Some(max_of(add(tot, tv.num), Z(0)))
         ELSE Some(sub(tv.num, Z(1)))
    ELSE IF tot # Z(0) THEN Some(Z(0)) ELSE None

get_start_index_plus_zero_none(tv, tot) ==
    IF tv.tag = "TakeNum"
    THEN IF tv.num = Z(0) \/ tot = Z(0) \/ lt(tot, tv.num) THEN None
         ELSE IF lt(tv.num, Z(0)) THEN Some(max_of(add(tot, tv.num), Z(0)))
         ELSE Some(sub(tv.num, Z(1)))
    ELSE None

get_start_index_zero_all(tv, tot) ==
    IF tv.tag = "TakeNum"
    THEN IF tot = Z(0) \/ lt(tot, tv.num) THEN None
         ELSE IF lt(tv.num, Z(0)) THEN Some(max_of(add(tot, tv.num), Z(0)))
         ELSE IF tv.num = Z(0) THEN Some(Z(0))
         ELSE Some(sub(tv.num, Z(1)))
    ELSE IF tot # Z(0) THEN Some(Z(0)) ELSE None

get_start_index_one_based(tv, tot) ==
    IF tv.tag = "TakeNum"
    THEN IF tv.num = Z(0) \/ tot = Z(0) \/ lt(tot, tv.num) THEN None
         ELSE IF lt(tv.num, Z(0)) THEN Some(max_of(add(tot, tv.num), Z(0)))
         ELSE Some(tv.num)
    ELSE IF tot # Z(0) THEN Some(Z(0)) ELSE None

\* fn get_start_index(take_val: &TakeValue, total: i64) -> Option<i64>
get_start_index(tv, tot) ==
    IF tv.tag = "TakeNum"
    THEN IF tv.num = Z(0) \/ tot = Z(0) \/ lt(tot, tv.num) THEN None
         ELSE IF lt(tv.num, Z(0)) THEN Some(max_of(add(tot, tv.num), Z(0)))
         ELSE Some(sub(tv.num, Z(1)))
    ELSE IF tot # Z(0) THEN Some(Z(0)) ELSE None

\* --------------------------------------------------------------- parse_num
\* characters a token is made of: signs, ASCII digits, a decimal digit that
\* is not ASCII (U+0663), and two characters that are no digits
Signs == {"+", "-"}
AsciiDigits == {"0", "1", "2", "3", "4", "5", "6", "7", "8", "9"}
UnicodeDigits == {"U+0663"}
OtherChars == {".", "f"}
Chars == Signs \cup AsciiDigits \cup UnicodeDigits \cup OtherChars

\* char::to_digit(10): the value of an ASCII digit, -1 for anything else
to_digit(c) ==
    CASE c = "0" -> 0 [] c = "1" -> 1 [] c = "2" -> 2 [] c = "3" -> 3
      [] c = "4" -> 4 [] c = "5" -> 5 [] c = "6" -> 6 [] c = "7" -> 7
      [] c = "8" -> 8 [] c = "9" -> 9 [] OTHER -> -1

\* \d of the regex crate: any Unicode decimal digit
re_digit(c) == c \in AsciiDigits \cup UnicodeDigits

\* mutant of NUM_RE_captures: the pattern without its end anchor
NUM_RE_captures_unanchored(v) ==
    LET signed == Len(v) >= 1 /\ v[1] \in Signs
        rest == IF signed THEN Tail(v) ELSE v
    IN IF Len(rest) >= 1 /\ re_digit(rest[1])
       THEN [matched |-> TRUE, sign |-> IF signed THEN v[1] ELSE ""]
       ELSE [matched |-> FALSE]

\* NUM_RE.captures(value) for ^([+-]?)\d+$ : the text of group 1 on a match
NUM_RE_captures(v) ==
    LET signed == Len(v) >= 1 /\ v[1] \in Signs
        rest == IF signed THEN Tail(v) ELSE v
    IN IF Len(rest) >= 1 /\ \A k \in 1..Len(rest) : re_digit(rest[k])
       THEN [matched |-> TRUE, sign |-> IF signed THEN v[1] ELSE ""]
       ELSE [matched |-> FALSE]

\* the digit loop of i64::from_str: checked_mul(10), then checked_add for a
\* positive number and checked_sub for a negative one
RECURSIVE from_str_digits(_, _, _)
from_str_digits(digits, is_positive, acc) ==
    IF digits = <<>> THEN [ok |-> TRUE, val |-> acc]
    ELSE LET x == to_digit(Head(digits))
             mul == Num(acc.neg, IF acc.mag = <<>> THEN <<>> ELSE Append(acc.mag, 0))
             nxt == IF is_positive THEN add(mul, Z(x)) ELSE sub(mul, Z(x))
         IN IF x < 0 THEN [ok |-> FALSE, err |-> "InvalidDigit"]
            ELSE IF lt(I64_MAX, mul) \/ lt(I64_MAX, nxt)
                 THEN [ok |-> FALSE, err |-> "PosOverflow"]
            ELSE IF lt(mul, I64_MIN) \/ lt(nxt, I64_MIN)
                 THEN [ok |-> FALSE, err |-> "NegOverflow"]
            ELSE from_str_digits(Tail(digits), is_positive, nxt)

\* value.parse::<i64>()
parse_i64(v) ==
    IF v = <<>> THEN [ok |-> FALSE, err |-> "Empty"]
    ELSE IF Len(v) = 1 /\ v[1] \in Signs THEN [ok |-> FALSE, err |-> "InvalidDigit"]
    ELSE IF v[1] = "+" THEN from_str_digits(Tail(v), TRUE, Z(0))
    ELSE IF v[1] = "-" THEN from_str_digits(Tail(v), FALSE, Z(0))
    ELSE from_str_digits(v, TRUE, Z(0))

\* Result<TakeValue>, and the panic of a failed expect
Ok(tv) == [kind |-> "Ok", val |-> tv]
Err(msg) == [kind |-> "Err", msg |-> msg]
Panic(msg) == [kind |-> "Panic", msg |-> msg]

\* mutants of parse_num
parse_num_unsigned_positive(v) ==
    LET caps == NUM_RE_captures(v)
        num == parse_i64(v)
    IN IF ~caps.matched THEN Err(v)
       ELSE IF ~num.ok THEN Panic("Invalid number")
       ELSE IF caps.sign = "+"
            THEN IF num.val = Z(0) THEN Ok(PlusZero) ELSE Ok(TakeNum(num.val))
       ELSE IF caps.sign = "-" THEN Ok(TakeNum(num.val))
       ELSE Ok(TakeNum(num.val))

parse_num_any_zero(v) ==
    LET caps == NUM_RE_captures(v)
        num == parse_i64(v)
    IN IF ~caps.matched THEN Err(v)
       ELSE IF ~num.ok THEN Panic("Invalid number")
       ELSE IF num.val = Z(0) THEN Ok(PlusZero)
       ELSE IF caps.sign = "+" THEN Ok(TakeNum(num.val))
       ELSE IF caps.sign = "-" THEN Ok(TakeNum(num.val))
       ELSE Ok(TakeNum(neg(num.val)))

\* fn parse_num(value: &str) -> Result<TakeValue>
parse_num(v) ==
    LET caps == NUM_RE_captures(v)
        num == parse_i64(v)
    IN IF ~caps.matched THEN Err(v)
       ELSE IF ~num.ok THEN Panic("Invalid number")
       ELSE IF caps.sign = "+"
            THEN IF num.val = Z(0) THEN Ok(PlusZero) ELSE Ok(TakeNum(num.val))
       ELSE IF caps.sign = "-" THEN Ok(TakeNum(num.val))
       ELSE Ok(TakeNum(neg(num.val)))

\* tokens of at most n characters
Tokens(n) == UNION {[1..k -> Chars] : k \in 0..n}

\* the decimal text of a magnitude
to_char(d) ==
    CASE d = 0 -> "0" [] d = 1 -> "1" [] d = 2 -> "2" [] d = 3 -> "3"
      [] d = 4 -> "4" [] d = 5 -> "5" [] d = 6 -> "6" [] d = 7 -> "7"
      [] d = 8 -> "8" [] d = 9 -> "9"
to_string(m) == IF m = <<>> THEN <<"0">> ELSE [k \in 1..Len(m) |-> to_char(m[k])]

\* tokens at the limits of the i64, with and without a sign: i64::MAX - 1,
\* i64::MAX, i64::MAX + 1 and i64::MAX + 2 in magnitude
LimitTokens ==
    {sign \o to_string(mag_add(I64_MAX.mag, digits_of(d))) :
        sign \in {<<>>, <<"+">>, <<"-">>}, d \in 0..2}
        \cup {sign \o to_string(mag_sub(I64_MAX.mag, <<1>>)) :
                sign \in {<<>>, <<"+">>, <<"-">>}}
        \cup {<<"0", "0">> \o to_string(I64_MAX.mag), to_string(I64_MAX.mag) \o <<".">>}

\* ------------------------------------------------------------ files, I/O
\* names of the files on the command line, and the bytes a file is made of
FileNames == <<"f1.txt", "f2.txt", "f3.txt", "f4.txt", "f5.txt", "f6.txt">>
Bytes == {"a", "\n"}
\* bytes of text that is not ASCII: the lead bytes of a character of two,
\* three and four bytes (U+00E9 is C3 A9, U+20AC is E2 82 AC, U+1F629 is
\* F0 9F 98 A9), the continuation bytes, of which those in 80..8F cannot
\* follow F0, and the three bytes of U+FFFD
LeadBytes == {"C3", "E2", "F0"}
ContBytes == {"82", "98", "9F", "A9", "AC"}
LowContBytes == {"82"}
REPLACEMENT == <<"EF", "BF", "BD">>
\* the bytes of a file of tailr: ASCII, and the two bytes of U+00E9
Utf8Bytes == Bytes \cup {"C3", "A9"}

\* the number of bytes of the character a byte starts
utf8_char_width(b) ==
    CASE b = "C3" -> 2 [] b = "E2" -> 3 [] b = "F0" -> 4 [] OTHER -> 1

\* the number of bytes at the head of bytes that start one character: the
\* first byte, and the bytes after it that continue its character
well_formed_len(bytes) ==
    1 + Cardinality({n \in 2..utf8_char_width(bytes[1]) :
                        \A j \in 2..n :
                            /\ j <= Len(bytes)
                            /\ bytes[j] \in ContBytes
                            /\ ~(bytes[1] = "F0" /\ j = 2 /\ bytes[j] \in LowContBytes)})

\* a name that File::open cannot open, and a file with its content
NoFile == [exists |-> FALSE]
File(content) == [exists |-> TRUE, content |-> content]
Contents(n) == UNION {[1..k -> Bytes] : k \in 0..n}
Utf8Contents(n) == UNION {[1..k -> Utf8Bytes] : k \in 0..n}
Files(n) == {File(c) : c \in Contents(n)} \cup {NoFile}

\* File::open(filename).map_err(|e| Error::msg(format!("{}: {}", filename, e)))
open_error(filename) == [file |-> filename, cause |-> "No such file or directory (os error 2)"]
open_file(filesystem, filename) ==
    IF ~filesystem[filename].exists
    THEN [ok |-> FALSE, err |-> open_error(filename)]
    ELSE [ok |-> TRUE, file |-> filesystem[filename].content]

\* BufRead::read_line: the bytes up to and including the next "\n", or the rest
RECURSIVE line_end(_, _)
line_end(content, k) ==
    IF k > Len(content) THEN Len(content)
    ELSE IF content[k] = "\n" THEN k
    ELSE line_end(content, k + 1)

\* the records successive read_line calls return until end of file
RECURSIVE read_lines(_)
read_lines(content) ==
    IF content = <<>> THEN <<>>
    ELSE LET e == line_end(content, 1)
         IN <<SubSeq(content, 1, e)>> \o read_lines(SubSeq(content, e + 1, Len(content)))

\* the UTF-8 check read_line makes on the bytes it has read
RECURSIVE valid_utf8(_)
valid_utf8(bytes) ==
    IF bytes = <<>> THEN TRUE
    ELSE IF Head(bytes) \in ContBytes THEN FALSE
    ELSE /\ well_formed_len(bytes) = utf8_char_width(Head(bytes))
         /\ valid_utf8(SubSeq(bytes, utf8_char_width(Head(bytes)) + 1, Len(bytes)))

\* String::from_utf8_lossy: a character is kept; a byte that starts no
\* character, and the start of a character without its end, become one
\* U+FFFD each
RECURSIVE from_utf8_lossy(_)
from_utf8_lossy(bytes) ==
    IF bytes = <<>> THEN <<>>
    ELSE IF Head(bytes) \in ContBytes
         THEN REPLACEMENT \o from_utf8_lossy(Tail(bytes))
    ELSE IF well_formed_len(bytes) = utf8_char_width(Head(bytes))
         THEN SubSeq(bytes, 1, well_formed_len(bytes))
              \o from_utf8_lossy(SubSeq(bytes, well_formed_len(bytes) + 1, Len(bytes)))
    ELSE REPLACEMENT
         \o from_utf8_lossy(SubSeq(bytes, well_formed_len(bytes) + 1, Len(bytes)))

RECURSIVE sum_len(_)
sum_len(records) ==
    IF records = <<>> THEN 0 ELSE Len(Head(records)) + sum_len(Tail(records))

\* the error of a read_line whose bytes are not UTF-8
utf8_error == [cause |-> "stream did not contain valid UTF-8"]

\* mutant of count_lines_bytes: only the terminated lines are counted
count_lines_bytes_terminated(filesystem, filename) ==
    LET f == open_file(filesystem, filename)
    IN IF ~f.ok THEN [ok |-> FALSE, err |-> f.err]
       ELSE IF \E k \in 1..Len(read_lines(f.file)) : ~valid_utf8(read_lines(f.file)[k])
            THEN [ok |-> FALSE, err |-> utf8_error]
       ELSE [ok |-> TRUE,
             lines |-> Z(Cardinality({k \in 1..Len(f.file) : f.file[k] = "\n"})),
             bytes |-> Z(sum_len(read_lines(f.file))),
             opens |-> 2]

\* fn count_lines_bytes(filename: &str) -> Result<(i64, i64)>
\* the file is opened and read twice: lines().count(), then the read_line
\* loop that adds up the bytes and fails on a line that is not UTF-8
count_lines_bytes(filesystem, filename) ==
    LET f == open_file(filesystem, filename)
    IN IF ~f.ok THEN [ok |-> FALSE, err |-> f.err]
       ELSE IF \E k \in 1..Len(read_lines(f.file)) : ~valid_utf8(read_lines(f.file)[k])
            THEN [ok |-> FALSE, err |-> utf8_error]
       ELSE [ok |-> TRUE,
             lines |-> Z(Len(read_lines(f.file))),
             bytes |-> Z(sum_len(read_lines(f.file))),
             opens |-> 2]

\* what the program writes to standard output, one item per print
Blank == [kind |-> "blank"]
Header(filename) == [kind |-> "header", file |-> filename]
Text(bytes) == [kind |-> "text", text |-> bytes]

\* mutant of print_header: the separator before every header
print_header_always_blank(idx, filename) ==
    <<Blank, Header(filename)>>

\* fn print_header(i: usize, filename: &str)
print_header(idx, filename) ==
    (IF idx > 0 THEN <<Blank>> ELSE <<>>) \o <<Header(filename)>>

\* mutant of print_lines_from: the line at the start index is dropped
RECURSIVE print_lines_from_after(_, _, _, _)
print_lines_from_after(records, idx, total_lines, start) ==
    IF idx >= total_lines THEN <<>>
    ELSE LET line == IF idx + 1 <= Len(records) THEN records[idx + 1] ELSE <<>>
         IN (IF idx > start THEN <<Text(line)>> ELSE <<>>)
            \o print_lines_from_after(records, idx + 1, total_lines, start)

\* fn print_lines(file, num_lines, total_lines): one print per line kept
RECURSIVE print_lines_from(_, _, _, _)
print_lines_from(records, idx, total_lines, start) ==
    IF idx >= total_lines THEN <<>>
    ELSE LET line == IF idx + 1 <= Len(records) THEN records[idx + 1] ELSE <<>>
         IN (IF idx >= start THEN <<Text(line)>> ELSE <<>>)
            \o print_lines_from(records, idx + 1, total_lines, start)

print_lines(content, num_lines, total_lines) ==
    LET s == get_start_index(num_lines, total_lines)
    IN IF s.some
       THEN print_lines_from(read_lines(content), 0, nat(total_lines), nat(s.val))
       ELSE <<>>

\* mutant of print_bytes: the seek goes one byte too far
print_bytes_seek_past(content, num_bytes, total_bytes) ==
    LET s == get_start_index(num_bytes, total_bytes)
    IN IF s.some THEN <<Text(from_utf8_lossy(SubSeq(content, nat(s.val) + 2, nat(total_bytes))))>>
       ELSE <<>>

\* fn print_bytes(file, num_bytes, total_bytes): seek, read_exact, one print
\* of the lossy decoding of the bytes read
print_bytes(content, num_bytes, total_bytes) ==
    LET s == get_start_index(num_bytes, total_bytes)
    IN IF s.some THEN <<Text(from_utf8_lossy(SubSeq(content, nat(s.val) + 1, nat(total_bytes))))>>
       ELSE <<>>

\* ------------------------------------------------- get_start_index, applied
GsiIdle == take_val = PlusZero /\ total = Z(0) /\ start_index = Pending
PnIdle == value = <<>> /\ parsed = Pending
RunIdle ==
    /\ args = [files |-> <<>>, lines |-> TakeNum(Z(-10)), bytes |-> None, quiet |-> FALSE]
    /\ fs = <<>>
    /\ i = 0
    /\ stdout = <<>>
    /\ stderr = <<>>
    /\ run_result = Pending
    /\ pc = "idle"
    /\ exit_code = -1
ExIdle == ex_file = <<>> /\ ex_take = PlusZero /\ ex_result = Pending
PosIdle == pos_value = <<>> /\ pos_result = Pending
CutIdle == cut_line = <<>> /\ cut_pos = <<>> /\ cut_result = Pending
GrepIdle ==
    /\ grep_file = <<>>
    /\ grep_pattern = [text |-> <<>>, case_insensitive |-> FALSE]
    /\ grep_matches = [invert_match \in BOOLEAN |-> Pending]
WcIdle == wc_file = <<>> /\ wc_info = Pending
FortIdle == fort_fs = <<>> /\ fort_paths = <<>> /\ fortunes = Pending
TailIdle == tail_value = <<>> /\ tail_file = <<>> /\ tail_out = Pending
CommIdle ==
    /\ comm_args = [show_col1 |-> TRUE, show_col2 |-> TRUE, show_col3 |-> TRUE,
                    insensitive |-> FALSE]
    /\ comm_lines1 = <<>>
    /\ comm_lines2 = <<>>
    /\ comm_result = Pending


\* the i64 values get_start_index is applied to: those around zero, and those
\* at the two limits of the type
I64Values ==
    {Z(n) : n \in -(MaxTotal + 1)..(MaxTotal + 1)}
        \cup {I64_MIN, add(I64_MIN, Z(1)), sub(I64_MAX, Z(1)), I64_MAX}
TakeValue == {PlusZero} \cup {TakeNum(n) : n \in I64Values}
\* the counts of a file: those up to MaxTotal, and those at the limit of the type
Totals == {Z(n) : n \in 0..MaxTotal} \cup {sub(I64_MAX, Z(1)), I64_MAX}

\* every TakeValue against every count
InitGsi ==
    /\ take_val \in TakeValue
    /\ total \in Totals
    /\ start_index = Pending
    /\ PnIdle
    /\ RunIdle
    /\ ExIdle
    /\ PosIdle
    /\ CutIdle
    /\ GrepIdle
    /\ WcIdle
    /\ FortIdle
    /\ TailIdle
    /\ CommIdle

ApplyGetStartIndex ==
    /\ start_index = Pending
    /\ start_index' = get_start_index(take_val, total)
    /\ UNCHANGED <<take_val, total, not_gsi_vars>>

NextGsi == ApplyGetStartIndex
SpecGsi == InitGsi /\ [][NextGsi]_vars

\* ------------------------------------------------------- parse_num, applied
InitParse ==
    /\ value \in Tokens(MaxLen) \cup LimitTokens
    /\ parsed = Pending
    /\ GsiIdle
    /\ RunIdle
    /\ ExIdle
    /\ PosIdle
    /\ CutIdle
    /\ GrepIdle
    /\ WcIdle
    /\ FortIdle
    /\ TailIdle
    /\ CommIdle

ApplyParseNum ==
    /\ parsed = Pending
    /\ parsed' = parse_num(value)
    /\ UNCHANGED <<value, not_pn_vars>>

NextParse == ApplyParseNum
SpecParse == InitParse /\ [][NextParse]_vars

\* -------------------------------------------------------------- run, main
\* the values of -n / -c the runs are started with
RunTakeValues ==
    {PlusZero, TakeNum(Z(0)), TakeNum(Z(-1)), TakeNum(Z(2)), TakeNum(Z(-10))}

InitRun ==
    /\ \E n \in 1..MaxFiles :
         /\ \E q \in BOOLEAN, l \in RunTakeValues, bytes_given \in BOOLEAN :
              args = [files |-> SubSeq(FileNames, 1, n),
                      lines |-> IF bytes_given THEN TakeNum(Z(-10)) ELSE l,
                      bytes |-> IF bytes_given THEN Some(l) ELSE None,
                      quiet |-> q]
         /\ fs \in [{FileNames[k] : k \in 1..n} -> Files(MaxBytes)]
    /\ i = 0
    /\ stdout = <<>>
    /\ stderr = <<>>
    /\ run_result = Pending
    /\ pc = "run"
    /\ exit_code = -1
    /\ GsiIdle
    /\ PnIdle
    /\ ExIdle
    /\ PosIdle
    /\ CutIdle
    /\ GrepIdle
    /\ WcIdle
    /\ FortIdle
    /\ TailIdle
    /\ CommIdle

\* one iteration of the loop of run, `?` returning the error of a failed open
RunFile ==
    /\ pc = "run"
    /\ i < Len(args.files)
    /\ LET filename == args.files[i + 1]
           counts == count_lines_bytes(fs, filename)
           header == IF Len(args.files) > 1 /\ ~args.quiet
                     THEN print_header(i, filename) ELSE <<>>
       IN IF ~counts.ok
          THEN /\ run_result' = Err(counts.err)
               /\ pc' = "returned"
               /\ UNCHANGED <<i, stdout>>
          ELSE /\ stdout' = stdout \o header \o
                     (IF args.bytes.some
                      THEN print_bytes(fs[filename].content, args.bytes.val, counts.bytes)
                      ELSE print_lines(fs[filename].content, args.lines, counts.lines))
               /\ i' = i + 1
               /\ UNCHANGED <<run_result, pc>>
    /\ UNCHANGED <<args, fs, stderr, exit_code, not_run_vars>>

\* the loop is over: Ok(())
RunReturn ==
    /\ pc = "run"
    /\ i = Len(args.files)
    /\ run_result' = Ok("unit")
    /\ pc' = "returned"
    /\ UNCHANGED <<args, fs, i, stdout, stderr, exit_code, not_run_vars>>

\* main: eprintln!("{}", err) for an Err, then the return from main
MainExit ==
    /\ pc = "returned"
    /\ stderr' = IF run_result.kind = "Err" THEN Append(stderr, run_result.msg) ELSE stderr
    /\ exit_code' = 0
    /\ pc' = "exited"
    /\ UNCHANGED <<args, fs, i, stdout, run_result, not_run_vars>>

NextRun == RunFile \/ RunReturn \/ MainExit
SpecRun == InitRun /\ [][NextRun]_vars

\* ------------------------------- counting and printing, applied to a file
\* the values of -n / -c the functions are applied with
ExTakeValues ==
    {PlusZero, TakeNum(I64_MIN), TakeNum(I64_MAX)}
        \cup {TakeNum(Z(n)) : n \in -(MaxExtract + 1)..(MaxExtract + 1)}

\* the file system of one file
ExFs == [n \in {FileNames[1]} |-> File(ex_file)]

InitExtract ==
    /\ ex_file \in Utf8Contents(MaxExtract)
    /\ ex_take \in ExTakeValues
    /\ ex_result = Pending
    /\ GsiIdle
    /\ PnIdle
    /\ RunIdle
    /\ PosIdle
    /\ CutIdle
    /\ GrepIdle
    /\ WcIdle
    /\ FortIdle
    /\ TailIdle
    /\ CommIdle

\* count_lines_bytes on the file
ApplyCountLinesBytes ==
    /\ ex_result = Pending
    /\ ex_result' = [op |-> "count_lines_bytes",
                     counts |-> count_lines_bytes(ExFs, FileNames[1])]
    /\ UNCHANGED <<ex_file, ex_take, not_ex_vars>>

\* the line branch of run on the file: count_lines_bytes, then print_lines
ApplyPrintLines ==
    /\ ex_result = Pending
    /\ LET counts == count_lines_bytes(ExFs, FileNames[1])
       IN ex_result' = [op |-> "print_lines",
                        counts |-> counts,
                        out |-> IF counts.ok
                                THEN print_lines(ex_file, ex_take, counts.lines)
                                ELSE <<>>]
    /\ UNCHANGED <<ex_file, ex_take, not_ex_vars>>

\* the byte branch of run on the file: count_lines_bytes, then print_bytes
ApplyPrintBytes ==
    /\ ex_result = Pending
    /\ LET counts == count_lines_bytes(ExFs, FileNames[1])
       IN ex_result' = [op |-> "print_bytes",
                        counts |-> counts,
                        out |-> IF counts.ok
                                THEN print_bytes(ex_file, ex_take, counts.bytes)
                                ELSE <<>>]
    /\ UNCHANGED <<ex_file, ex_take, not_ex_vars>>

NextExtract == ApplyCountLinesBytes \/ ApplyPrintLines \/ ApplyPrintBytes
SpecExtract == InitExtract /\ [][NextExtract]_vars

\* ========================================================== cutr: parse_pos
\* src/cutr/src/main.rs

\* characters of a position list
PosChars == {",", "-", "+", "0", "1", "2", "a", "U+0663"}
PosTokens(n) == UNION {[1..k -> PosChars] : k \in 0..n}

\* AnyRange<usize>: From(start..), To(..end), Range(start..end)
From(start) == [tag |-> "From", start |-> start]
To(end) == [tag |-> "To", end |-> end]
Range(start, end) == [tag |-> "Range", start |-> start, end |-> end]

\* the two error messages of parse_pos
value_error(v) == [msg |-> "illegal list value", value |-> v]
range_error(start, end) ==
    [msg |-> "First number in range must be lower than second number",
     start |-> start, end |-> end]

\* one round of the digit loop of usize::from_str, on the digit x and the
\* result of checked_mul(10): checked_add
RECURSIVE from_str_digits_usize(_, _)
usize_digit(rest, x, mul) ==
    IF x < 0 THEN [ok |-> FALSE, err |-> "InvalidDigit"]
    ELSE IF lt(USIZE_MAX, mul) \/ lt(USIZE_MAX, add(mul, Z(x)))
         THEN [ok |-> FALSE, err |-> "PosOverflow"]
    ELSE from_str_digits_usize(rest, add(mul, Z(x)))

\* the digit loop of usize::from_str: checked_mul(10), checked_add
from_str_digits_usize(digits, acc) ==
    IF digits = <<>> THEN [ok |-> TRUE, val |-> acc]
    ELSE usize_digit(Tail(digits), to_digit(Head(digits)),
                     Num(FALSE, IF acc.mag = <<>> THEN <<>> ELSE Append(acc.mag, 0)))

\* value.parse::<usize>(): a "+" may lead, a "-" is no digit
parse_usize(v) ==
    IF v = <<>> THEN [ok |-> FALSE, err |-> "Empty"]
    ELSE IF Len(v) = 1 /\ v[1] \in Signs THEN [ok |-> FALSE, err |-> "InvalidDigit"]
    ELSE IF v[1] = "+" THEN from_str_digits_usize(Tail(v), Z(0))
    ELSE from_str_digits_usize(v, Z(0))

\* NonZeroUsize of the usize parsed: 0 fails
nonzero(n) == IF n.ok /\ n.val = Z(0) THEN [ok |-> FALSE, err |-> "Zero"] ELSE n

\* value.parse::<NonZeroUsize>()
parse_nonzero_usize(v) == nonzero(parse_usize(v))

\* .map(|val| val.get()).map_err(|_| value_error())
index_of(n, v) == IF n.ok THEN Ok(n.val) ELSE Err(value_error(v))

\* mutant of parse_index: without the test for a leading "+"
parse_index_allows_plus(v) == index_of(parse_nonzero_usize(v), v)

\* fn parse_index(value: &str) -> Result<usize>
parse_index(v) ==
    IF v # <<>> /\ v[1] = "+" THEN Err(value_error(v))
    ELSE index_of(parse_nonzero_usize(v), v)

\* \d+
re_digits(v) == Len(v) >= 1 /\ \A k \in 1..Len(v) : re_digit(v[k])

\* from_re ^(\d+)-$ , to_re ^-(\d+)$ , range_re ^(\d+)-(\d+)$ : the groups
from_re_captures(v) ==
    IF Len(v) >= 2 /\ v[Len(v)] = "-" /\ re_digits(SubSeq(v, 1, Len(v) - 1))
    THEN [matched |-> TRUE, g1 |-> SubSeq(v, 1, Len(v) - 1)]
    ELSE [matched |-> FALSE]
to_re_captures(v) ==
    IF Len(v) >= 2 /\ v[1] = "-" /\ re_digits(Tail(v))
    THEN [matched |-> TRUE, g1 |-> Tail(v)]
    ELSE [matched |-> FALSE]
range_re_captures(v) ==
    LET dashes == {k \in 1..Len(v) : v[k] = "-"}
        d == CHOOSE k \in dashes : TRUE
    IN IF Cardinality(dashes) = 1
          /\ re_digits(SubSeq(v, 1, d - 1)) /\ re_digits(SubSeq(v, d + 1, Len(v)))
       THEN [matched |-> TRUE, g1 |-> SubSeq(v, 1, d - 1), g2 |-> SubSeq(v, d + 1, Len(v))]
       ELSE [matched |-> FALSE]

\* mutants of parse_closed
closed_range_one_based(start, end) ==
    IF start.kind = "Err" THEN start
    ELSE IF end.kind = "Err" THEN end
    ELSE IF lt(start.val, end.val) THEN Ok(Range(start.val, end.val))
    ELSE Err(range_error(start.val, end.val))
parse_closed_one_based(cap) ==
    closed_range_one_based(parse_index(cap.g1), parse_index(cap.g2))

closed_range_le(start, end) ==
    IF start.kind = "Err" THEN start
    ELSE IF end.kind = "Err" THEN end
    ELSE IF le(start.val, end.val) THEN Ok(Range(sub(start.val, Z(1)), end.val))
    ELSE Err(range_error(start.val, end.val))
parse_closed_le(cap) == closed_range_le(parse_index(cap.g1), parse_index(cap.g2))

\* the closure of range_re on its two indices: the error of the first that
\* is none, then start < end
closed_range(start, end) ==
    IF start.kind = "Err" THEN start
    ELSE IF end.kind = "Err" THEN end
    ELSE IF lt(start.val, end.val) THEN Ok(Range(sub(start.val, Z(1)), end.val))
    ELSE Err(range_error(start.val, end.val))

\* the closure of range_re: both indices, then start < end
parse_closed(cap) == closed_range(parse_index(cap.g1), parse_index(cap.g2))

\* .map(|n| AnyRange::Range(n - 1..n))
single_range(n) == IF n.kind = "Ok" THEN Ok(Range(sub(n.val, Z(1)), n.val)) ELSE n
\* Ok(AnyRange::From(start - 1..)), Ok(AnyRange::To(..end))
from_range(start) == IF start.kind = "Ok" THEN Ok(From(sub(start.val, Z(1)))) ELSE start
to_range(end) == IF end.kind = "Ok" THEN Ok(To(end.val)) ELSE end

\* each .or_else(|err| re.captures(val).ok_or(err).and_then(...)): the result
\* so far when it is Ok or when the regex does not match
or_else_from(r, cap) ==
    IF r.kind = "Ok" \/ ~cap.matched THEN r ELSE from_range(parse_index(cap.g1))
or_else_to(r, cap) ==
    IF r.kind = "Ok" \/ ~cap.matched THEN r ELSE to_range(parse_index(cap.g1))
or_else_closed(r, cap) ==
    IF r.kind = "Ok" \/ ~cap.matched THEN r ELSE parse_closed(cap)

\* the closure of parse_pos on one element of the list: parse_index, then
\* each .or_else in turn
parse_element(val) ==
    or_else_closed(
        or_else_to(
            or_else_from(single_range(parse_index(val)), from_re_captures(val)),
            to_re_captures(val)),
        range_re_captures(val))

\* value.split(',')
RECURSIVE split_comma(_, _)
split_comma(v, k) ==
    IF k > Len(v) THEN <<v>>
    ELSE IF v[k] = "," THEN <<SubSeq(v, 1, k - 1)>> \o split_comma(SubSeq(v, k + 1, Len(v)), 1)
    ELSE split_comma(v, k + 1)

\* .collect::<Result<_, _>>(): the ranges in the order of the list, stopping
\* at the first error
RECURSIVE collect_ranges(_, _)
collect_one(rest, acc, r) ==
    IF r.kind = "Err" THEN r ELSE collect_ranges(rest, Append(acc, r.val))
collect_ranges(elements, acc) ==
    IF elements = <<>> THEN Ok(acc)
    ELSE collect_one(Tail(elements), acc, parse_element(Head(elements)))

\* fn parse_pos(value: &str) -> Result<PositionList>
parse_pos(v) == collect_ranges(split_comma(v, 1), <<>>)

\* position lists at the limit of the usize: usize::MAX and usize::MAX + 1 as
\* an index, as the start of an open range, and as the end of a range
LimitPosTokens ==
    UNION {{top, Append(top, "-"), <<"-">> \o top, <<"1", "-">> \o top,
            top \o <<"-", "1">>, <<"1", ",">> \o top} :
              top \in {to_string(mag_add(USIZE_MAX.mag, digits_of(d))) : d \in 0..1}}

InitPos ==
    /\ pos_value \in PosTokens(MaxPosLen) \cup LimitPosTokens
    /\ pos_result = Pending
    /\ GsiIdle
    /\ PnIdle
    /\ RunIdle
    /\ ExIdle
    /\ CutIdle
    /\ GrepIdle
    /\ WcIdle
    /\ FortIdle
    /\ TailIdle
    /\ CommIdle

ApplyParsePos ==
    /\ pos_result = Pending
    /\ pos_result' = parse_pos(pos_value)
    /\ UNCHANGED <<pos_value, not_pos_vars>>

NextPos == ApplyParsePos
SpecPos == InitPos /\ [][NextPos]_vars

\* ======================================== cutr: extract_chars, extract_bytes
\* the characters of a line: of one, three and four bytes
LineChars == {"a", "U+20AC", "U+1F629"}
Lines(n) == UNION {[1..k -> LineChars] : k \in 0..n}

\* the UTF-8 encoding of a character
encode_utf8(c) ==
    CASE c = "U+00E9" -> <<"C3", "A9">>
      [] c = "U+20AC" -> <<"E2", "82", "AC">>
      [] c = "U+1F629" -> <<"F0", "9F", "98", "A9">>
      [] OTHER -> <<c>>

\* line.as_bytes()
RECURSIVE as_bytes(_)
as_bytes(line) ==
    IF line = <<>> THEN <<>> ELSE encode_utf8(Head(line)) \o as_bytes(Tail(line))

\* the position lists parse_pos returns, with indices up to n
PositionRanges(n) ==
    {From(Z(s)) : s \in 0..n} \cup {To(Z(e)) : e \in 1..n}
        \cup {Range(Z(p[1]), Z(p[2])) : p \in {q \in (0..n) \X (1..n) : q[1] < q[2]}}
PositionLists(k, n) == UNION {[1..j -> PositionRanges(n)] : j \in 1..k}

\* match range.clone(): the half-open range of indices of an AnyRange
index_range(range, len) ==
    CASE range.tag = "From" -> [start |-> nat(range.start), end |-> len]
      [] range.tag = "To" -> [start |-> 0, end |-> nat(range.end)]
      [] range.tag = "Range" -> [start |-> nat(range.start), end |-> nat(range.end)]

\* range.filter_map(|index| items.nth(index)).collect()
RECURSIVE filter_map_nth(_, _, _)
filter_map_nth(items, index, end) ==
    IF index >= end THEN <<>>
    ELSE (IF index < Len(items) THEN <<items[index + 1]>> ELSE <<>>)
         \o filter_map_nth(items, index + 1, end)

\* char_pos.iter().flat_map(|range| ...): the items of each range, in the
\* order of the list
RECURSIVE flat_map_ranges(_, _)
flat_map_ranges(items, char_pos) ==
    IF char_pos = <<>> THEN <<>>
    ELSE LET r == index_range(Head(char_pos), Len(items))
         IN filter_map_nth(items, r.start, r.end)
            \o flat_map_ranges(items, Tail(char_pos))

\* fn extract_chars(line: &str, char_pos: &[AnyRange<usize>]) -> String
extract_chars(line, char_pos) == flat_map_ranges(line, char_pos)

\* mutant of extract_bytes: the bytes are returned as they are
extract_bytes_verbatim(line, char_pos) == flat_map_ranges(as_bytes(line), char_pos)

\* fn extract_bytes(line: &str, char_pos: &[AnyRange<usize>]) -> String
\* the bytes picked are decoded with String::from_utf8_lossy
extract_bytes(line, char_pos) ==
    from_utf8_lossy(flat_map_ranges(as_bytes(line), char_pos))

InitCut ==
    /\ cut_line \in Lines(MaxChars)
    /\ cut_pos \in PositionLists(MaxRanges, MaxChars + 1)
    /\ cut_result = Pending
    /\ GsiIdle
    /\ PnIdle
    /\ RunIdle
    /\ ExIdle
    /\ PosIdle
    /\ GrepIdle
    /\ WcIdle
    /\ FortIdle
    /\ TailIdle
    /\ CommIdle

ApplyExtractChars ==
    /\ cut_result = Pending
    /\ cut_result' = [op |-> "extract_chars", out |-> extract_chars(cut_line, cut_pos)]
    /\ UNCHANGED <<cut_line, cut_pos, not_cut_vars>>

ApplyExtractBytes ==
    /\ cut_result = Pending
    /\ cut_result' = [op |-> "extract_bytes", out |-> extract_bytes(cut_line, cut_pos)]
    /\ UNCHANGED <<cut_line, cut_pos, not_cut_vars>>

NextCut == ApplyExtractChars \/ ApplyExtractBytes
SpecCut == InitCut /\ [][NextCut]_vars

\* ======================================================== grepr: find_lines
\* the bytes of an input: two letters that differ in case only, the line
\* terminator, and a byte that is not UTF-8 on its own
GrepBytes == {"o", "O", "\n", "A9"}
GrepInputs(n) == UNION {[1..k -> GrepBytes] : k \in 0..n}

\* a pattern: a literal, built with or without case_insensitive(true)
PatternChars == {"o", "O"}
Patterns(n) ==
    {[text |-> t, case_insensitive |-> ci] :
        t \in UNION {[1..k -> PatternChars] : k \in 0..n}, ci \in BOOLEAN}

\* the case folding of a case-insensitive pattern
fold(c) == IF c = "O" THEN "o" ELSE c

\* pattern.is_match(&buf): the literal occurs somewhere in buf
is_match(pattern, buf) ==
    \E k \in 0..(Len(buf) - Len(pattern.text)) :
        \A j \in 1..Len(pattern.text) :
            IF pattern.case_insensitive
            THEN fold(buf[k + j]) = fold(pattern.text[j])
            ELSE buf[k + j] = pattern.text[j]

\* mutant of find_lines_loop: invert_match is not looked at
RECURSIVE find_lines_loop_no_invert(_, _, _, _)
find_lines_loop_no_invert(records, pattern, invert_match, result) ==
    IF records = <<>> THEN Ok(result)
    ELSE LET buf == Head(records)
         IN IF ~valid_utf8(buf) THEN Err(utf8_error)
            ELSE find_lines_loop_no_invert(Tail(records), pattern, invert_match,
                     IF is_match(pattern, buf) THEN Append(result, buf) ELSE result)

\* the loop of find_lines over the records read_line returns
RECURSIVE find_lines_loop(_, _, _, _)
find_lines_loop(records, pattern, invert_match, result) ==
    IF records = <<>> THEN Ok(result)
    ELSE LET buf == Head(records)
         IN IF ~valid_utf8(buf) THEN Err(utf8_error)
            ELSE find_lines_loop(Tail(records), pattern, invert_match,
                     IF is_match(pattern, buf)
                     THEN (IF ~invert_match THEN Append(result, buf) ELSE result)
                     ELSE (IF invert_match THEN Append(result, buf) ELSE result))

\* fn find_lines<T: BufRead>(file, pattern, invert_match) -> Result<Vec<String>>
find_lines(file, pattern, invert_match) ==
    find_lines_loop(read_lines(file), pattern, invert_match, <<>>)

InitGrep ==
    /\ grep_file \in GrepInputs(MaxText)
    /\ grep_pattern \in Patterns(MaxPattern)
    /\ grep_matches = [invert_match \in BOOLEAN |-> Pending]
    /\ GsiIdle
    /\ PnIdle
    /\ RunIdle
    /\ ExIdle
    /\ PosIdle
    /\ CutIdle
    /\ WcIdle
    /\ FortIdle
    /\ TailIdle
    /\ CommIdle

\* one call of find_lines on the input, with either value of invert_match
ApplyFindLines ==
    \E invert_match \in BOOLEAN :
        /\ grep_matches[invert_match] = Pending
        /\ grep_matches' = [grep_matches EXCEPT ![invert_match] =
                                find_lines(grep_file, grep_pattern, invert_match)]
        /\ UNCHANGED <<grep_file, grep_pattern, not_grep_vars>>

NextGrep == ApplyFindLines
SpecGrep == InitGrep /\ [][NextGrep]_vars

\* ================================================================ wcr: count
\* the bytes of an input: a letter, the white space of a text, and the two
\* bytes of a character of two bytes
WcBytes == {"a", " ", "\r", "\n", "C3", "A9"}
WcInputs(n) == UNION {[1..k -> WcBytes] : k \in 0..n}

\* char::is_whitespace, on the characters of the inputs
is_whitespace(c) == c \in {" ", "\r", "\n"}

\* line.split_whitespace().count(): the runs of characters that are not
\* white space
RECURSIVE split_whitespace_count(_, _)
split_whitespace_count(line, in_word) ==
    IF line = <<>> THEN 0
    ELSE IF is_whitespace(Head(line)) THEN split_whitespace_count(Tail(line), FALSE)
    ELSE (IF in_word THEN 0 ELSE 1) + split_whitespace_count(Tail(line), TRUE)

\* line.chars().count(), on a line that is UTF-8
RECURSIVE chars_count(_)
chars_count(line) ==
    IF line = <<>> THEN 0
    ELSE 1 + chars_count(SubSeq(line, utf8_char_width(Head(line)) + 1, Len(line)))

FileInfo(num_lines, num_words, num_bytes, num_chars) ==
    [num_lines |-> num_lines, num_words |-> num_words,
     num_bytes |-> num_bytes, num_chars |-> num_chars]

\* mutant of count_loop: the characters are counted as the bytes are
RECURSIVE count_loop_chars_as_bytes(_, _)
count_loop_chars_as_bytes(records, info) ==
    IF records = <<>> THEN Ok(info)
    ELSE LET line == Head(records)
         IN IF ~valid_utf8(line) THEN Err(utf8_error)
            ELSE count_loop_chars_as_bytes(Tail(records),
                     FileInfo(info.num_lines + 1,
                              info.num_words + split_whitespace_count(line, FALSE),
                              info.num_bytes + Len(line),
                              info.num_chars + Len(line)))

\* the loop of count over the records read_line returns
RECURSIVE count_loop(_, _)
count_loop(records, info) ==
    IF records = <<>> THEN Ok(info)
    ELSE LET line == Head(records)
         IN IF ~valid_utf8(line) THEN Err(utf8_error)
            ELSE count_loop(Tail(records),
                     FileInfo(info.num_lines + 1,
                              info.num_words + split_whitespace_count(line, FALSE),
                              info.num_bytes + Len(line),
                              info.num_chars + chars_count(line)))

\* pub fn count(mut file: impl BufRead) -> Result<FileInfo>
count(file) == count_loop(read_lines(file), FileInfo(0, 0, 0, 0))

InitWc ==
    /\ wc_file \in WcInputs(MaxText)
    /\ wc_info = Pending
    /\ GsiIdle
    /\ PnIdle
    /\ RunIdle
    /\ ExIdle
    /\ PosIdle
    /\ CutIdle
    /\ GrepIdle
    /\ FortIdle
    /\ TailIdle
    /\ CommIdle

ApplyCount ==
    /\ wc_info = Pending
    /\ wc_info' = count(wc_file)
    /\ UNCHANGED <<wc_file, not_wc_vars>>

NextWc == ApplyCount
SpecWc == InitWc /\ [][NextWc]_vars

\* =================================================== fortuner: read_fortunes
\* the path lists handed to read_fortunes: none, one, one twice, two
FortunePathLists ==
    {<<>>, <<"jokes">>, <<"jokes", "jokes">>, <<"jokes", "quotes">>}

\* the lines of a fortune file: text, white space only, the separator, a
\* line that begins with the separator, and a separator without terminator
\* (which can only be the last line)
FortuneLines ==
    {<<"a", "\n">>, <<" ", "\n">>, <<"%", "\n">>, <<"%", "a", "\n">>, <<"%">>}
FortuneFiles(n) ==
    {File(Concat(ls)) :
        ls \in {l \in UNION {[1..k -> FortuneLines] : k \in 0..n} :
                   \A j \in 1..(Len(l) - 1) : l[j][Len(l[j])] = "\n"}}
        \cup {NoFile}

\* the error of File::open on a path that does not exist
not_found == [cause |-> "No such file or directory (os error 2)"]

Fortune(source, text) == [source |-> source, text |-> text]

\* str::trim_end
RECURSIVE trim_end(_)
trim_end(text) ==
    IF text = <<>> THEN <<>>
    ELSE IF is_whitespace(text[Len(text)]) THEN trim_end(SubSeq(text, 1, Len(text) - 1))
    ELSE text

\* mutant of read_fortunes_file: a record is pushed whatever its text
RECURSIVE read_fortunes_file_keep_empty(_, _, _, _)
read_fortunes_file_keep_empty(records, source, text, acc) ==
    IF records = <<>> THEN acc
    ELSE LET line == Head(records)
         IN IF line[1] = "%"
            THEN read_fortunes_file_keep_empty(Tail(records), source, <<>>,
                     Append(acc, Fortune(source, trim_end(text))))
            ELSE read_fortunes_file_keep_empty(Tail(records), source, text \o line, acc)

\* the while loop of read_fortunes over the lines of one file
RECURSIVE read_fortunes_file(_, _, _, _)
read_fortunes_file(records, source, text, acc) ==
    IF records = <<>> THEN acc
    ELSE LET line == Head(records)
         IN IF line[1] = "%"
            THEN read_fortunes_file(Tail(records), source, <<>>,
                     IF trim_end(text) # <<>>
                     THEN Append(acc, Fortune(source, trim_end(text)))
                     ELSE acc)
            ELSE read_fortunes_file(Tail(records), source, text \o line, acc)

\* the for loop of read_fortunes over the paths; text starts empty in each file
RECURSIVE read_fortunes_paths(_, _, _)
read_fortunes_paths(filesystem, paths, acc) ==
    IF paths = <<>> THEN Ok(acc)
    ELSE IF ~filesystem[Head(paths)].exists THEN Err(not_found)
    ELSE read_fortunes_paths(filesystem, Tail(paths),
             read_fortunes_file(read_lines(filesystem[Head(paths)].content),
                                Head(paths), <<>>, acc))

\* fn read_fortunes(paths: &[PathBuf]) -> Result<Vec<Fortune>>
read_fortunes(filesystem, paths) == read_fortunes_paths(filesystem, paths, <<>>)

InitFort ==
    /\ fort_paths \in FortunePathLists
    /\ fort_fs \in [{fort_paths[k] : k \in 1..Len(fort_paths)} -> FortuneFiles(MaxFortuneLines)]
    /\ fortunes = Pending
    /\ GsiIdle
    /\ PnIdle
    /\ RunIdle
    /\ ExIdle
    /\ PosIdle
    /\ CutIdle
    /\ GrepIdle
    /\ WcIdle
    /\ TailIdle
    /\ CommIdle

ApplyReadFortunes ==
    /\ fortunes = Pending
    /\ fortunes' = read_fortunes(fort_fs, fort_paths)
    /\ UNCHANGED <<fort_fs, fort_paths, not_fort_vars>>

NextFort == ApplyReadFortunes
SpecFort == InitFort /\ [][NextFort]_vars

\* ================================== tailr: a count on the command line, a file
\* the characters of the counts given with -n
CountChars == {"+", "-", "0", "1", "2", "3"}
Counts(n) == UNION {[1..k -> CountChars] : k \in 0..n}

\* mutant of tail_lines: a count without sign is taken as one with "+"
tail_lines_unsigned_positive(v, content) ==
    LET lines == parse_num_unsigned_positive(v)
        filesystem == [n \in {FileNames[1]} |-> File(content)]
        counts == count_lines_bytes(filesystem, FileNames[1])
    IN IF lines.kind # "Ok" THEN lines
       ELSE IF ~counts.ok THEN Err(counts.err)
       ELSE Ok(print_lines(content, lines.val, counts.lines))

\* tailr -n v FILE: the value parser of Args.lines, then run on the one file,
\* quiet or not: count_lines_bytes, no header, print_lines
tail_lines(v, content) ==
    LET lines == parse_num(v)
        filesystem == [n \in {FileNames[1]} |-> File(content)]
        counts == count_lines_bytes(filesystem, FileNames[1])
    IN IF lines.kind # "Ok" THEN lines
       ELSE IF ~counts.ok THEN Err(counts.err)
       ELSE Ok(print_lines(content, lines.val, counts.lines))

\* counts at the limit of the i64: i64::MAX and i64::MAX + 1, with and
\* without "+"
LimitCounts ==
    {sign \o to_string(mag_add(I64_MAX.mag, digits_of(d))) :
        sign \in {<<>>, <<"+">>}, d \in 0..1}

InitTail ==
    /\ tail_value \in Counts(MaxCount) \cup LimitCounts
    /\ tail_file \in Contents(MaxExtract)
    /\ tail_out = Pending
    /\ GsiIdle
    /\ PnIdle
    /\ RunIdle
    /\ ExIdle
    /\ PosIdle
    /\ CutIdle
    /\ GrepIdle
    /\ WcIdle
    /\ FortIdle
    /\ CommIdle

ApplyTail ==
    /\ tail_out = Pending
    /\ tail_out' = tail_lines(tail_value, tail_file)
    /\ UNCHANGED <<tail_value, tail_file, not_tail_vars>>

NextTail == ApplyTail
SpecTail == InitTail /\ [][NextTail]_vars

\* ================================================================ commr: run
\* the lines of the two files: two that differ in case only, and a third
CommLines == {"a", "A", "b"}
CommFiles(n) == UNION {[1..k -> CommLines] : k \in 0..n}
CommArgs ==
    [show_col1 : BOOLEAN, show_col2 : BOOLEAN, show_col3 : BOOLEAN,
     insensitive : BOOLEAN]

to_ascii_lowercase(line) == IF line = "A" THEN "a" ELSE line

\* line1.eq_ignore_ascii_case(line2) or line1.eq(line2)
matched(a, line1, line2) ==
    IF a.insensitive
    THEN to_ascii_lowercase(line1) = to_ascii_lowercase(line2)
    ELSE line1 = line2

\* the nested loops that fill common_ids: every pair [i1, i2] of indices
\* (from 0) of matching lines, by i1 and then by i2; k counts the pairs
RECURSIVE common_ids_from(_, _, _, _)
common_ids_from(a, lines1, lines2, k) ==
    IF k >= Len(lines1) * Len(lines2) THEN <<>>
    ELSE LET i1 == k \div Len(lines2)
             i2 == k % Len(lines2)
         IN (IF matched(a, lines1[i1 + 1], lines2[i2 + 1]) THEN <<<<i1, i2>>>> ELSE <<>>)
            \o common_ids_from(a, lines1, lines2, k + 1)

\* a line written to standard output: the column it is printed for, the
\* delimiters written before it, and the line
Printed(col, delims, line) == [col |-> col, delims |-> delims, line |-> line]

\* the closures print1, print2, print3, each on a sequence of lines
print1(a, lines) ==
    IF a.show_col1 THEN [k \in 1..Len(lines) |-> Printed(1, 0, lines[k])] ELSE <<>>
print2(a, lines) ==
    IF a.show_col2
    THEN [k \in 1..Len(lines) |->
             Printed(2, IF a.show_col1 THEN 1 ELSE 0, lines[k])]
    ELSE <<>>
print3(a, lines) ==
    IF a.show_col3
    THEN [k \in 1..Len(lines) |->
             Printed(3, (IF a.show_col1 THEN 1 ELSE 0) + (IF a.show_col2 THEN 1 ELSE 0),
                     lines[k])]
    ELSE <<>>

\* the panic of Option::unwrap on None
unwrap_none == "called Option::unwrap() on a None value"

\* what run leaves behind: its result and what it has printed
Outcome(result, out) == [result |-> result, stdout |-> out]

\* the next n items of an iterator that has given p of the lines
next_n(lines, p, n) == SubSeq(lines, p + 1, IF p + n <= Len(lines) THEN p + n ELSE Len(lines))

\* the loop of run over common_ids: p1 and p2 are the lines the iterators
\* lines1 and lines2 have given so far
RECURSIVE merge_loop(_, _, _, _, _, _, _, _)
merge_loop(a, lines1, lines2, ids, last_common_id, p1, p2, out) ==
    IF ids = <<>>
    THEN Outcome(Ok(<<>>),
                 out \o print1(a, next_n(lines1, p1, Len(lines1)))
                     \o print2(a, next_n(lines2, p2, Len(lines2))))
    ELSE LET common_id == Head(ids)
             n2 == max(0, common_id[2] - last_common_id[2])
             n1 == max(0, common_id[1] - last_common_id[1])
             out2 == out \o print2(a, next_n(lines2, p2, n2))
             out1 == out2 \o print1(a, next_n(lines1, p1, n1))
         IN IF p2 + n2 > Len(lines2) THEN Outcome(Panic(unwrap_none), out2)
            ELSE IF p1 + n1 > Len(lines1) THEN Outcome(Panic(unwrap_none), out1)
            ELSE IF p1 + n1 + 1 > Len(lines1) THEN Outcome(Panic(unwrap_none), out1)
            ELSE merge_loop(a, lines1, lines2, Tail(ids),
                     <<common_id[1] + 1, common_id[2] + 1>>,
                     p1 + n1 + 1,
                     IF p2 + n2 + 1 <= Len(lines2) THEN p2 + n2 + 1 ELSE Len(lines2),
                     out1 \o print3(a, <<lines1[p1 + n1 + 1]>>))

\* pub fn run(args: &Args) -> Result<()>, on two files that open, with
\* the lines read from them
comm_run(a, lines1, lines2) ==
    merge_loop(a, lines1, lines2, common_ids_from(a, lines1, lines2, 0),
               <<0, 0>>, 0, 0, <<>>)

InitComm ==
    /\ comm_args \in CommArgs
    /\ comm_lines1 \in CommFiles(MaxCommLines)
    /\ comm_lines2 \in CommFiles(MaxCommLines)
    /\ comm_result = Pending
    /\ GsiIdle
    /\ PnIdle
    /\ RunIdle
    /\ ExIdle
    /\ PosIdle
    /\ CutIdle
    /\ GrepIdle
    /\ WcIdle
    /\ FortIdle
    /\ TailIdle

ApplyCommRun ==
    /\ comm_result = Pending
    /\ comm_result' = comm_run(comm_args, comm_lines1, comm_lines2)
    /\ UNCHANGED <<comm_args, comm_lines1, comm_lines2, not_comm_vars>>

NextComm == ApplyCommRun
SpecComm == InitComm /\ [][NextComm]_vars

\* =================================================================== claims
\* get_start_index has been applied to (take_val, total)
GsiDone == start_index # Pending
IsTakeNum == take_val.tag = "TakeNum"

\* C1: with several files of which one cannot be opened, the failure is
\* reported for that file and every other file is still processed: the run
\* goes through the whole argument list.
C1_OpenFailureDoesNotAbort ==
    (pc = "exited" /\ Len(args.files) > 1) =>
        \A k \in 1..Len(args.files) :
            IF fs[args.files[k]].exists
            THEN k <= i
            ELSE \E e \in 1..Len(stderr) : stderr[e] = open_error(args.files[k])

\* C2: TakeNum(n) with 0 < n <= total resolves to Some(n - 1); n = total
\* gives Some(total - 1).
C2_PositiveWithinTotal ==
    (GsiDone /\ IsTakeNum /\ lt(Z(0), take_val.num) /\ le(take_val.num, total))
        => start_index = Some(sub(take_val.num, Z(1)))
C2_Witness ==
    /\ GsiDone /\ IsTakeNum
    /\ total = I64_MAX /\ take_val.num = total
    /\ start_index = Some(sub(I64_MAX, Z(1)))

\* C3: TakeNum(n) with n > total > 0 resolves to None.
C3_PositivePastEnd ==
    (GsiDone /\ IsTakeNum /\ lt(Z(0), total) /\ lt(total, take_val.num))
        => start_index = None
C3_Witness ==
    /\ GsiDone /\ IsTakeNum
    /\ lt(Z(0), total) /\ take_val.num = add(total, Z(1))
    /\ start_index = None

\* C4: TakeNum(n) with n < 0 and total > 0 resolves to Some(total + n) when
\* |n| <= total and to Some(0), never None, when |n| > total.
C4_NegativeClamped ==
    (GsiDone /\ IsTakeNum /\ lt(take_val.num, Z(0)) /\ lt(Z(0), total))
        => /\ le(neg(take_val.num), total)
                  => start_index = Some(add(total, take_val.num))
           /\ lt(total, neg(take_val.num)) => start_index = Some(Z(0))
C4_Witness ==
    /\ GsiDone /\ IsTakeNum
    /\ total = I64_MAX /\ take_val.num = I64_MIN
    /\ start_index = Some(Z(0))

\* C5: with total = 0 every TakeValue resolves to None.
C5_EmptyTotal ==
    (GsiDone /\ total = Z(0)) => start_index = None
C5_Witness ==
    /\ GsiDone /\ total = Z(0)
    /\ IsTakeNum /\ lt(take_val.num, Z(0))
    /\ start_index = None

\* C6: PlusZero resolves to Some(0) for every total > 0.
C6_PlusZeroAll ==
    (GsiDone /\ take_val = PlusZero /\ lt(Z(0), total)) => start_index = Some(Z(0))
C6_Witness ==
    /\ GsiDone /\ take_val = PlusZero
    /\ total = I64_MAX
    /\ start_index = Some(Z(0))

\* C7: TakeNum(0) resolves to None for every total.
C7_ZeroNothing ==
    (GsiDone /\ take_val = TakeNum(Z(0))) => start_index = None
C7_Witness ==
    /\ GsiDone /\ take_val = TakeNum(Z(0))
    /\ lt(Z(0), total)
    /\ start_index = None

\* C8: whenever get_start_index returns Some(i), 0 <= i < total.
C8_IndexInRange ==
    (GsiDone /\ start_index.some)
        => (le(Z(0), start_index.val) /\ lt(start_index.val, total))
C8_Witness ==
    /\ GsiDone /\ start_index.some
    /\ total = I64_MAX /\ start_index.val = sub(total, Z(1))

\* parse_num has been applied to value
ParseDone == parsed # Pending
AllAsciiDigits(s) == Len(s) >= 1 /\ \A k \in 1..Len(s) : s[k] \in AsciiDigits

\* the number a string of ASCII digits denotes: its digits, the leading
\* zeros apart
Magnitude(s) == Num(FALSE, strip_zeros([k \in 1..Len(s) |-> to_digit(s[k])]))

\* C9: a token of ASCII digits without sign, of magnitude m <= i64::MAX,
\* parses to TakeNum(-m); i64::MAX parses to TakeNum(i64::MIN + 1).
C9_UnsignedIsNegative ==
    (ParseDone /\ AllAsciiDigits(value) /\ le(Magnitude(value), I64_MAX))
        => parsed = Ok(TakeNum(neg(Magnitude(value))))
C9_Witness ==
    /\ ParseDone /\ AllAsciiDigits(value)
    /\ Magnitude(value) = I64_MAX
    /\ parsed = Ok(TakeNum(add(I64_MIN, Z(1))))

\* C10: for a signed token whose magnitude m fits the i64 result: "+" with
\* m = 0 parses to PlusZero, "+" with m > 0 to TakeNum(m), "-" to
\* TakeNum(-m); and PlusZero is the result of no other token.
C10_SignedTokens ==
    ParseDone =>
        LET signed == Len(value) >= 2 /\ value[1] \in Signs /\ AllAsciiDigits(Tail(value))
            m == Magnitude(Tail(value))
        IN /\ (signed /\ value[1] = "+" /\ m = Z(0)) => parsed = Ok(PlusZero)
           /\ (signed /\ value[1] = "+" /\ lt(Z(0), m) /\ le(m, I64_MAX))
                  => parsed = Ok(TakeNum(m))
           /\ (signed /\ value[1] = "-" /\ le(I64_MIN, neg(m)))
                  => parsed = Ok(TakeNum(neg(m)))
           /\ parsed = Ok(PlusZero) => (signed /\ value[1] = "+" /\ m = Z(0))
C10_Witness ==
    /\ ParseDone
    /\ value = <<"-">> \o to_string(I64_MIN.mag)
    /\ parsed = Ok(TakeNum(I64_MIN))

\* the magnitude of a well-formed token does not fit the i64 it is parsed to
OutOfRange(v) ==
    /\ Len(v) >= 1
    /\ IF v[1] \in Signs
       THEN /\ AllAsciiDigits(Tail(v))
            /\ IF v[1] = "-" THEN lt(neg(Magnitude(Tail(v))), I64_MIN)
               ELSE lt(I64_MAX, Magnitude(Tail(v)))
       ELSE AllAsciiDigits(v) /\ lt(I64_MAX, Magnitude(v))

\* C11: a token of digits with an optional sign whose magnitude is outside
\* the i64 range does not fail: it parses to a TakeNum saturated to the
\* minimum representable value.
C11_OverflowSaturates ==
    (ParseDone /\ OutOfRange(value)) => parsed = Ok(TakeNum(I64_MIN))

\* the token matches ^[+-]?\d+$
MatchesNumRe(v) ==
    \E k \in 0..1 :
        /\ Len(v) > k
        /\ k = 1 => v[1] \in {"+", "-"}
        /\ \A j \in (k + 1)..Len(v) : v[j] \in AsciiDigits \cup UnicodeDigits

\* C12: every token that does not match ^[+-]?\d+$ gives an error whose
\* message is the token itself, and no TakeValue.
C12_NoMatchIsError ==
    (ParseDone /\ ~MatchesNumRe(value)) => parsed = Err(value)
C12_Witness ==
    /\ ParseDone
    /\ value = <<"3", ".", "1", "4">>
    /\ parsed = Err(value)

\* C16: when run ends with an error, the process exits with a nonzero
\* status.
C16_ErrorExitsNonzero ==
    (pc = "exited" /\ run_result.kind = "Err") => exit_code # 0

\* ---- one file: count_lines_bytes, print_lines, print_bytes
ExDone(op) == ex_result # Pending /\ ex_result.op = op

\* the bytes of a sequence of printed items, in order
RECURSIVE Flatten(_)
Flatten(items) ==
    IF items = <<>> THEN <<>> ELSE Head(items).text \o Flatten(Tail(items))

\* the lines of a file: one per "\n", and one more for bytes after the last
NumTerminators(content) == Cardinality({k \in 1..Len(content) : content[k] = "\n"})
NumLines(content) ==
    NumTerminators(content)
        + (IF content # <<>> /\ content[Len(content)] # "\n" THEN 1 ELSE 0)

\* one line: not empty, and no "\n" but at its end
IsOneLine(text) ==
    /\ text # <<>>
    /\ \A k \in 1..(Len(text) - 1) : text[k] # "\n"

\* the continuation bytes a character has after the byte that starts it
Following(b) ==
    IF b = "C3" THEN 1 ELSE IF b = "E2" THEN 2 ELSE IF b = "F0" THEN 3 ELSE 0
\* the byte at j can be the d-th byte after the byte b that starts a character
CanFollow(bytes, j, b, d) ==
    /\ j <= Len(bytes)
    /\ bytes[j] \in ContBytes
    /\ (b = "F0" /\ d = 1) => bytes[j] \notin LowContBytes
\* the byte at k starts a character, and the d bytes after it continue it
Continued(bytes, k, d) ==
    /\ bytes[k] \notin ContBytes
    /\ d <= Following(bytes[k])
    /\ \A e \in 1..d : CanFollow(bytes, k + e, bytes[k], e)
\* the byte at k starts a character all of whose bytes are there
Whole(bytes, k) == Continued(bytes, k, Following(bytes[k]))
\* the byte at j continues the character that starts at k
ContinuesFrom(bytes, j, k) == k < j /\ Continued(bytes, k, j - k)

\* text the UTF-8 check accepts: every byte that starts a character has the
\* whole character after it, and every continuation byte continues such a
\* character
IsUtf8(bytes) ==
    \A j \in 1..Len(bytes) :
        IF bytes[j] \in ContBytes
        THEN \E k \in 1..(j - 1) : ContinuesFrom(bytes, j, k) /\ Whole(bytes, k)
        ELSE Whole(bytes, j)

\* C13: print_lines on a source of total_lines lines writes line i iff
\* i >= s for the resolved start index s: total_lines - s lines, in the order
\* of the source and unmodified, the tail of the source from the start of
\* line s on; with no start index it writes nothing.
C13_PrintLinesTail ==
    (ExDone("print_lines") /\ ex_result.counts.ok) =>
        LET out == ex_result.out
            s == get_start_index(ex_take, Z(NumLines(ex_file)))
            n == IF s.some THEN NumLines(ex_file) - nat(s.val) ELSE 0
            first == Len(ex_file) - Len(Flatten(out)) + 1
        IN /\ Len(out) = n
           /\ \A k \in 1..Len(out) : IsOneLine(out[k].text)
           /\ \A k \in 1..(Len(out) - 1) : out[k].text[Len(out[k].text)] = "\n"
           /\ Flatten(out) = SubSeq(ex_file, first, Len(ex_file))
           /\ (out # <<>> /\ first > 1) => ex_file[first - 1] = "\n"
C13_Witness ==
    /\ ExDone("print_lines") /\ ex_result.counts.ok
    /\ Len(ex_result.out) = 2
    /\ ex_result.counts.lines = Z(3)
    /\ ex_result.out[1] # ex_result.out[2]

\* C14 as claimed: print_bytes emits exactly the bytes s..total_bytes of the
\* file, total_bytes - s of them, and nothing with no start index.
C14_PrintBytesVerbatim ==
    (ExDone("print_bytes") /\ ex_result.counts.ok) =>
        LET s == get_start_index(ex_take, Z(Len(ex_file)))
        IN IF s.some
           THEN ex_result.out = <<Text(SubSeq(ex_file, nat(s.val) + 1, Len(ex_file)))>>
           ELSE ex_result.out = <<>>

\* C14, amended: print_bytes reads the bytes s..total_bytes and prints them
\* unchanged when they are valid UTF-8, which they are for s = 0; when the
\* seek lands inside a multi-byte character, the continuation byte at s is
\* printed as U+FFFD and the bytes after it unchanged; with no start index
\* nothing is printed.
C14_PrintBytesLossy ==
    (ExDone("print_bytes") /\ ex_result.counts.ok) =>
        LET s == get_start_index(ex_take, Z(Len(ex_file)))
            range == SubSeq(ex_file, nat(s.val) + 1, Len(ex_file))
        IN IF ~s.some THEN ex_result.out = <<>>
           ELSE /\ IsUtf8(range) => ex_result.out = <<Text(range)>>
                /\ s.val = Z(0) => ex_result.out = <<Text(ex_file)>>
                /\ ~IsUtf8(range) =>
                       /\ range[1] \in ContBytes
                       /\ ex_result.out = <<Text(REPLACEMENT \o Tail(range))>>
C14_Witness ==
    /\ ExDone("print_bytes") /\ ex_result.counts.ok
    /\ Len(ex_result.out) = 1
    /\ Len(ex_result.out[1].text) = Len(ex_file) + 1
    /\ SubSeq(ex_result.out[1].text, 1, 3) = REPLACEMENT

\* ---- run over several files
ShowHeaders == Len(args.files) > 1 /\ ~args.quiet

\* what run has printed for the k-th file: its body, after its header when
\* headers are shown, the header after a blank line unless it is the first
FileBody(k) ==
    LET content == fs[args.files[k]].content
    IN IF args.bytes.some
       THEN print_bytes(content, args.bytes.val, Z(Len(content)))
       ELSE print_lines(content, args.lines, Z(NumLines(content)))

RECURSIVE HeadedOutput(_)
HeadedOutput(k) ==
    IF k = 0 THEN <<>>
    ELSE HeadedOutput(k - 1)
         \o (IF ShowHeaders
             THEN (IF k > 1 THEN <<Blank>> ELSE <<>>) \o <<Header(args.files[k])>>
             ELSE <<>>)
         \o FileBody(k)

\* C15: headers are printed iff more than one file is given and -q is not
\* set; then the content of each file follows its header "==> name <==",
\* and a blank line precedes every header but the first.
C15_Headers ==
    /\ stdout = HeadedOutput(i)
    /\ ~ShowHeaders =>
           \A k \in 1..Len(stdout) : stdout[k].kind \notin {"header", "blank"}
C15_Witness ==
    /\ pc = "exited" /\ ShowHeaders /\ i = 2
    /\ stdout[1] = Header(args.files[1])
    /\ \E k \in 3..(Len(stdout) - 2) :
           /\ stdout[k] = Blank
           /\ stdout[k + 1] = Header(args.files[2])
           /\ stdout[k - 1].kind = "text"
           /\ stdout[k + 2].kind = "text"

\* C17 as claimed: for any content, count_lines_bytes returns the number of
\* line-terminated records and the byte length of the file.
C17_CountTerminated ==
    ExDone("count_lines_bytes") =>
        /\ ex_result.counts.ok
        /\ ex_result.counts.lines = Z(NumTerminators(ex_file))
        /\ ex_result.counts.bytes = Z(Len(ex_file))

\* C17, amended: for content that is valid UTF-8, count_lines_bytes returns
\* the number of lines, a final line without terminator included, and the
\* byte length of the file, terminators included, reading the file twice;
\* for content that is not valid UTF-8 it returns an error.
C17_CountLines ==
    ExDone("count_lines_bytes") =>
        IF IsUtf8(ex_file)
        THEN /\ ex_result.counts.ok
             /\ ex_result.counts.lines = Z(NumLines(ex_file))
             /\ ex_result.counts.bytes = Z(Len(ex_file))
             /\ ex_result.counts.opens = 2
        ELSE ~ex_result.counts.ok
C17_Witness ==
    /\ ExDone("count_lines_bytes") /\ ex_result.counts.ok
    /\ ex_file # <<>>
    /\ ex_file[Len(ex_file)] # "\n"
    /\ NumTerminators(ex_file) = 1
    /\ ex_result.counts.lines = Z(2)
    /\ ex_result.counts.bytes = Z(Len(ex_file))

\* ---- cutr: parse_pos
PosDone == pos_result # Pending

\* the elements of a list, found from the positions of its commas
CommasBefore(v, p) == Cardinality({k \in 1..(p - 1) : v[k] = ","})
NumElems(v) == CommasBefore(v, Len(v) + 1) + 1
Elem(v, n) ==
    LET at == {p \in 1..Len(v) : v[p] # "," /\ CommasBefore(v, p) = n - 1}
    IN IF at = {} THEN <<>>
       ELSE SubSeq(v, CHOOSE p \in at : \A q \in at : p <= q,
                      CHOOSE p \in at : \A q \in at : p >= q)

\* the four forms of an element, written with ASCII digits
ShapeSingle(e) == AllAsciiDigits(e)
ShapeFrom(e) == Len(e) >= 2 /\ e[Len(e)] = "-" /\ AllAsciiDigits(SubSeq(e, 1, Len(e) - 1))
ShapeTo(e) == Len(e) >= 2 /\ e[1] = "-" /\ AllAsciiDigits(Tail(e))
ShapeClosed(e) ==
    \E d \in 2..(Len(e) - 1) :
        /\ e[d] = "-"
        /\ AllAsciiDigits(SubSeq(e, 1, d - 1))
        /\ AllAsciiDigits(SubSeq(e, d + 1, Len(e)))
HasShape(e) == ShapeSingle(e) \/ ShapeFrom(e) \/ ShapeTo(e) \/ ShapeClosed(e)

\* the indices an element of one of the four forms is written with
Indices(e) ==
    IF ShapeSingle(e) THEN <<e>>
    ELSE IF ShapeFrom(e) THEN <<SubSeq(e, 1, Len(e) - 1)>>
    ELSE IF ShapeTo(e) THEN <<Tail(e)>>
    ELSE LET d == CHOOSE k \in 1..Len(e) : e[k] = "-"
         IN <<SubSeq(e, 1, d - 1), SubSeq(e, d + 1, Len(e))>>

\* every index of the element is a usize
Fits(e) == \A k \in 1..Len(Indices(e)) : le(Magnitude(Indices(e)[k]), USIZE_MAX)
HasZero(e) == \E k \in 1..Len(Indices(e)) : Magnitude(Indices(e)[k]) = Z(0)
FirstZero(e) ==
    Indices(e)[CHOOSE k \in 1..Len(Indices(e)) :
                   /\ Magnitude(Indices(e)[k]) = Z(0)
                   /\ \A j \in 1..(k - 1) : Magnitude(Indices(e)[j]) # Z(0)]

\* a closed range N-M, N and M at least 1, that does not have N < M
ClosedNotIncreasing(e) ==
    /\ ShapeClosed(e) /\ Fits(e) /\ ~HasZero(e)
    /\ le(Magnitude(Indices(e)[2]), Magnitude(Indices(e)[1]))

\* an element parse_pos accepts, and the range it stands for
ValidElem(e) == HasShape(e) /\ Fits(e) /\ ~HasZero(e) /\ ~ClosedNotIncreasing(e)
ExpectedRange(e) ==
    IF ShapeSingle(e) THEN Range(sub(Magnitude(e), Z(1)), Magnitude(e))
    ELSE IF ShapeFrom(e) THEN From(sub(Magnitude(Indices(e)[1]), Z(1)))
    ELSE IF ShapeTo(e) THEN To(Magnitude(Indices(e)[1]))
    ELSE Range(sub(Magnitude(Indices(e)[1]), Z(1)), Magnitude(Indices(e)[2]))

\* the first element of the list that parse_pos does not accept
HasInvalid(v) == \E n \in 1..NumElems(v) : ~ValidElem(Elem(v, n))
FirstInvalid(v) ==
    Elem(v, CHOOSE n \in 1..NumElems(v) :
                /\ ~ValidElem(Elem(v, n))
                /\ \A m \in 1..(n - 1) : ValidElem(Elem(v, m)))

\* C18: a list whose elements are all of the forms N, N-, -N, N-M with
\* N < M (N, M >= 1, leading zeros allowed) parses to one range per
\* element, in the order of the list: Range(N-1..N), From(N-1..), To(..N),
\* Range(N-1..M).
C18_ValidList ==
    (PosDone /\ ~HasInvalid(pos_value)) =>
        pos_result = Ok([n \in 1..NumElems(pos_value) |->
                            ExpectedRange(Elem(pos_value, n))])
C18_Witness ==
    /\ PosDone
    /\ pos_value = <<"1", "-">> \o to_string(USIZE_MAX.mag)
    /\ pos_result = Ok(<<Range(Z(0), USIZE_MAX)>>)

\* C19: a list with an element that is empty, has an index 0, a "+" or a
\* non-digit, or is of none of the four forms, gives an error and no list;
\* when that element is the first one not accepted, the message is
\* 'illegal list value: "X"' with X the element, or the zero index when the
\* element has one of the four forms.
C19_IllegalListValue ==
    PosDone =>
        /\ (\E n \in 1..NumElems(pos_value) :
                LET e == Elem(pos_value, n) IN ~HasShape(e) \/ HasZero(e))
               => pos_result.kind = "Err"
        /\ HasInvalid(pos_value) =>
               LET e == FirstInvalid(pos_value)
               IN /\ (~HasShape(e) /\ \A k \in 1..Len(e) : e[k] \notin UnicodeDigits)
                         => pos_result = Err(value_error(e))
                  /\ (HasShape(e) /\ Fits(e) /\ HasZero(e))
                         => pos_result = Err(value_error(FirstZero(e)))
C19_Witness ==
    /\ PosDone
    /\ pos_value = <<"1", ",", "0", "-", "1">>
    /\ pos_result = Err(value_error(<<"0">>))

\* C20: a closed range N-M with N >= M (N, M >= 1) is rejected, with the
\* error 'First number in range (N) must be lower than second number (M)'
\* when it is the first element not accepted.
C20_RangeOrder ==
    PosDone =>
        /\ (\E n \in 1..NumElems(pos_value) : ClosedNotIncreasing(Elem(pos_value, n)))
               => pos_result.kind = "Err"
        /\ (HasInvalid(pos_value) /\ ClosedNotIncreasing(FirstInvalid(pos_value)))
               => LET e == FirstInvalid(pos_value)
                  IN pos_result = Err(range_error(Magnitude(Indices(e)[1]),
                                                  Magnitude(Indices(e)[2])))
C20_Witness ==
    /\ PosDone
    /\ pos_value = <<"1", ",", "2", "-", "1">>
    /\ pos_result = Err(range_error(Z(2), Z(1)))

\* ---- cutr: extract_chars, extract_bytes
CutDone(op) == cut_result # Pending /\ cut_result.op = op

min(a, b) == IF a <= b THEN a ELSE b

\* the items of a line at the positions of a range that lie within the line
Lo(r) == IF r.tag = "To" THEN 0 ELSE nat(r.start)
Hi(r, n) == IF r.tag = "From" THEN n ELSE min(nat(r.end), n)
Picked(items, r) ==
    [k \in 1..max(0, Hi(r, Len(items)) - Lo(r)) |-> items[Lo(r) + k]]
\* and of every range of a list, in the order of the list
Selected(items, pos) == Concat([n \in 1..Len(pos) |-> Picked(items, pos[n])])

\* the lossy decoding of the bytes, byte by byte: a byte of a whole
\* character is kept; a byte that starts a character whose end is not there
\* gives one U+FFFD, and the bytes that continue it give nothing; a
\* continuation byte that continues no character gives one U+FFFD
Decoded(bytes) ==
    Concat([j \in 1..Len(bytes) |->
               IF bytes[j] \in ContBytes
               THEN IF \E k \in 1..(j - 1) : ContinuesFrom(bytes, j, k) /\ Whole(bytes, k)
                    THEN <<bytes[j]>>
                    ELSE IF \E k \in 1..(j - 1) : ContinuesFrom(bytes, j, k)
                         THEN <<>>
                         ELSE REPLACEMENT
               ELSE IF Whole(bytes, j) THEN <<bytes[j]>> ELSE REPLACEMENT])

\* C21 as claimed: extract_chars and extract_bytes return the concatenation,
\* in the order of the list, of the characters / bytes of the line at the
\* positions of each range that lie within the line.
C21_ExtractVerbatim ==
    /\ CutDone("extract_chars") => cut_result.out = Selected(cut_line, cut_pos)
    /\ CutDone("extract_bytes") => cut_result.out = Selected(as_bytes(cut_line), cut_pos)

\* C21, amended: extract_chars returns that concatenation of characters;
\* extract_bytes returns the lossy decoding of that concatenation of bytes:
\* the bytes themselves when they are valid UTF-8, and otherwise the whole
\* characters among them unchanged, one U+FFFD for each start of a character
\* whose end is not there (its first byte with the bytes that continue it),
\* and one U+FFFD for each continuation byte that continues no character.
\* Positions at or beyond the end of the line contribute nothing, and
\* neither function fails.
C21_ExtractLossy ==
    /\ CutDone("extract_chars") => cut_result.out = Selected(cut_line, cut_pos)
    /\ CutDone("extract_bytes") =>
           LET bytes == Selected(as_bytes(cut_line), cut_pos)
           IN /\ cut_result.out = Decoded(bytes)
              /\ IsUtf8(bytes) => cut_result.out = bytes
C21_Witness ==
    /\ CutDone("extract_bytes")
    /\ cut_line = <<"a", "U+20AC">>
    /\ cut_pos = <<Range(Z(1), Z(3)), Range(Z(0), Z(1))>>
    /\ cut_result.out = REPLACEMENT \o <<"a">>

\* ---- grepr: find_lines
GrepDone(inv) == grep_matches[inv] # Pending

\* the n-th line of a text, its terminator included
TermsBefore(text, p) == Cardinality({k \in 1..(p - 1) : text[k] = "\n"})
LineAt(text, n) ==
    LET ps == {p \in 1..Len(text) : TermsBefore(text, p) = n - 1}
        first == CHOOSE p \in ps : \A q \in ps : p <= q
    IN [k \in 1..Cardinality(ps) |-> text[first + k - 1]]
LinesOf(text) == [n \in 1..NumLines(text) |-> LineAt(text, n)]

\* the pattern occurs in the line
Occurs(pattern, line) ==
    \E a \in 1..(Len(line) + 1), b \in 0..Len(line) :
        /\ b - a + 1 = Len(pattern.text)
        /\ \A j \in 1..Len(pattern.text) :
               \/ line[a + j - 1] = pattern.text[j]
               \/ /\ pattern.case_insensitive
                  /\ {line[a + j - 1], pattern.text[j]} = {"o", "O"}

\* how often a line occurs in a sequence of lines
Count(lines, l) == Cardinality({k \in 1..Len(lines) : lines[k] = l})

\* C22: on a text, find_lines returns in input order the lines that match
\* (invert_match false) or the lines that do not (invert_match true), a last
\* line without terminator included; the two results share no line and
\* together hold every input line as often as the input does. (An input
\* that is not UTF-8 has no lines: both calls return the read error.)
C22_FindLinesPartition ==
    /\ \A inv \in BOOLEAN :
          GrepDone(inv) =>
              IF IsUtf8(grep_file)
              THEN LET Kept(l) == Occurs(grep_pattern, l) # inv
                   IN grep_matches[inv] = Ok(SelectSeq(LinesOf(grep_file), Kept))
              ELSE grep_matches[inv] = Err(utf8_error)
    /\ (GrepDone(FALSE) /\ GrepDone(TRUE) /\ IsUtf8(grep_file)) =>
          LET matching == grep_matches[FALSE].val
              others == grep_matches[TRUE].val
          IN /\ \A k \in 1..Len(matching), j \in 1..Len(others) :
                   matching[k] # others[j]
             /\ Len(matching) + Len(others) = NumLines(grep_file)
             /\ \A n \in 1..NumLines(grep_file) :
                   LET l == LineAt(grep_file, n)
                   IN Count(matching, l) + Count(others, l)
                          = Count(LinesOf(grep_file), l)
C22_Witness ==
    /\ GrepDone(FALSE) /\ GrepDone(TRUE)
    /\ grep_file = <<"o", "\n", "O", "o">>
    /\ grep_pattern = [text |-> <<"O">>, case_insensitive |-> FALSE]
    /\ grep_matches[FALSE] = Ok(<<<<"O", "o">>>>)
    /\ grep_matches[TRUE] = Ok(<<<<"o", "\n">>>>)

\* ---- wcr: count
WcDone == wc_info # Pending

IsSpace(c) == c = " " \/ c = "\r" \/ c = "\n"
\* the words of a text: the places where a word begins
WordStarts(text) ==
    {p \in 1..Len(text) : ~IsSpace(text[p]) /\ (p = 1 \/ IsSpace(text[p - 1]))}
RECURSIVE SumWords(_)
SumWords(lines) ==
    IF lines = <<>> THEN 0
    ELSE Cardinality(WordStarts(Head(lines))) + SumWords(Tail(lines))
\* the characters of a text: every byte but the continuation bytes
NumChars(text) == Cardinality({p \in 1..Len(text) : text[p] \notin ContBytes})
IsAscii(text) == \A p \in 1..Len(text) : text[p] \notin LeadBytes \cup ContBytes

\* C23: on a text, count returns num_lines = the records read (a last line
\* without terminator is one), num_bytes = all bytes, terminators included,
\* num_words = the words separated by white space, summed over the lines,
\* num_chars = the characters, terminators included; so num_chars <=
\* num_bytes, with equality on ASCII. (An input that is not UTF-8 has no
\* characters: count returns the read error.)
C23_Count ==
    WcDone =>
        IF IsUtf8(wc_file)
        THEN /\ wc_info.kind = "Ok"
             /\ wc_info.val.num_lines = NumLines(wc_file)
             /\ wc_info.val.num_bytes = Len(wc_file)
             /\ wc_info.val.num_words = SumWords(LinesOf(wc_file))
             /\ wc_info.val.num_words = Cardinality(WordStarts(wc_file))
             /\ wc_info.val.num_chars = NumChars(wc_file)
             /\ wc_info.val.num_chars <= wc_info.val.num_bytes
             /\ IsAscii(wc_file) => wc_info.val.num_chars = wc_info.val.num_bytes
        ELSE wc_info = Err(utf8_error)
C23_Witness ==
    /\ WcDone
    /\ wc_file = <<"C3", "A9", "\n", "a">>
    /\ wc_info = Ok(FileInfo(2, 2, 4, 3))

\* ---- fortuner: read_fortunes
FortDone == fortunes # Pending

\* the text without the white space at its end
Trimmed(text) ==
    LET keep == {p \in 1..Len(text) : ~IsSpace(text[p])}
    IN IF keep = {} THEN <<>>
       ELSE SubSeq(text, 1, CHOOSE p \in keep : \A q \in keep : q <= p)

\* the lines, of a sequence of lines, that begin with '%'
Separators(lines) == {n \in 1..Len(lines) : lines[n][1] = "%"}
\* the record that the separator at line n ends: the lines after the
\* separator before it (or from the start of the file), trimmed
RecordText(lines, n) ==
    LET before == {m \in Separators(lines) : m < n}
        prev == IF before = {} THEN 0
                ELSE CHOOSE m \in before : \A q \in before : q <= m
    IN Trimmed(Concat(SubSeq(lines, prev + 1, n - 1)))
\* the fortunes of one file, in the order of the file
FortunesOf(path, text) ==
    LET lines == LinesOf(text)
        Rec(n) == IF n \in Separators(lines) THEN RecordText(lines, n) ELSE <<>>
    IN Concat([n \in 1..Len(lines) |->
                  IF Rec(n) # <<>> THEN <<Fortune(path, Rec(n))>> ELSE <<>>])
AllOpen == \A k \in 1..Len(fort_paths) : fort_fs[fort_paths[k]].exists

\* C24: read_fortunes returns, path after path and in the order of each
\* file, one fortune per line beginning with '%' whose record - the lines
\* since the separator before it or since the start of that file, without
\* the white space at their end - is not empty.
C24_ReadFortunes ==
    (FortDone /\ AllOpen) =>
        fortunes = Ok(Concat([k \in 1..Len(fort_paths) |->
                                 FortunesOf(fort_paths[k], fort_fs[fort_paths[k]].content)]))
C24_Witness ==
    /\ FortDone
    /\ fort_paths = <<"jokes", "quotes">>
    /\ fort_fs["jokes"] = File(<<"a", "\n", "%", "\n", "a", "\n">>)
    /\ fort_fs["quotes"] = File(<<" ", "\n", "%", "a", "\n", "%">>)
    /\ fortunes = Ok(<<Fortune("jokes", <<"a">>)>>)

\* ---- tailr, end to end in line mode
TailDone == tail_out # Pending
\* the lines printed, one per print
TailPrinted == [k \in 1..Len(tail_out.val) |-> tail_out.val[k].text]

\* C25: on a file of L lines, a count "N" or "-N" with N >= 1 prints the
\* last min(N, L) lines in order, "+N" with N >= 1 prints the lines N..L
\* (none when N > L), "+0" prints all L lines and "0" prints nothing; N is a
\* number the i64 of TakeNum holds.
C25_TailLines ==
    TailDone =>
        LET lines == LinesOf(tail_file)
            L == Len(lines)
            signed == Len(tail_value) >= 2 /\ tail_value[1] \in Signs
                          /\ AllAsciiDigits(Tail(tail_value))
            unsigned == AllAsciiDigits(tail_value)
            N == IF signed THEN Magnitude(Tail(tail_value)) ELSE Magnitude(tail_value)
            held == le(Z(1), N) /\ le(N, I64_MAX)
            last == (unsigned \/ (signed /\ tail_value[1] = "-")) /\ held
            from == signed /\ tail_value[1] = "+" /\ held
        IN /\ last => /\ tail_out.kind = "Ok"
                      /\ TailPrinted =
                             SubSeq(lines, IF lt(Z(L), N) THEN 1 ELSE L - nat(N) + 1, L)
           /\ from => /\ tail_out.kind = "Ok"
                      /\ le(N, Z(L)) => TailPrinted = SubSeq(lines, nat(N), L)
                      /\ lt(Z(L), N) => tail_out.val = <<>>
           /\ (signed /\ tail_value[1] = "+" /\ N = Z(0)) =>
                  /\ tail_out.kind = "Ok"
                  /\ TailPrinted = lines
           /\ (unsigned /\ N = Z(0)) => tail_out = Ok(<<>>)
C25_Witness ==
    /\ TailDone
    /\ tail_value = <<"2">>
    /\ tail_file = <<"a", "\n", "\n", "a">>
    /\ tail_out = Ok(<<Text(<<"\n">>), Text(<<"a">>)>>)

\* ---- commr: run
CommDone == comm_result # Pending
CommCompleted == CommDone /\ comm_result.result.kind = "Ok"

\* two lines are equal, as the run compares them
SameLine(l1, l2) ==
    \/ l1 = l2
    \/ comm_args.insensitive /\ {l1, l2} = {"a", "A"}
InFile(lines, l) == \E k \in 1..Len(lines) : SameLine(lines[k], l)

\* C26: run does not panic, whatever the two sequences of lines: it ends
\* with Ok.
C26_NoPanic == CommDone => comm_result.result = Ok(<<>>)

\* C27: when run completes, a line printed in column 1 is a line of file 1
\* with no equal line in file 2, a line printed in column 2 is a line of
\* file 2 with no equal line in file 1, and a line printed in column 3 is in
\* both files.
C27_Columns ==
    CommCompleted =>
        \A k \in 1..Len(comm_result.stdout) :
            LET p == comm_result.stdout[k]
            IN /\ p.col = 1 => (InFile(comm_lines1, p.line) /\ ~InFile(comm_lines2, p.line))
               /\ p.col = 2 => (InFile(comm_lines2, p.line) /\ ~InFile(comm_lines1, p.line))
               /\ p.col = 3 => (InFile(comm_lines1, p.line) /\ InFile(comm_lines2, p.line))

====
